---- MODULE Spec2Model ----
(***************************************************************************)
(* Behaviour monitor (backend/ueba/monitor.py) and pipeline orchestrator   *)
(* (backend/agents/master_agent.py) of N-Wheeler-AI.                       *)
(*                                                                         *)
(* Time is the UTC clock in whole seconds since a Monday 00:00.  An Option *)
(* value (Python None or a value) is a sequence of length 0 or 1.          *)
(***************************************************************************)
EXTENDS Integers, Sequences, FiniteSets, TLC

VARIABLES
    activity_logs,          \* UEBAMonitor.activity_logs
    agent_activity_counts,  \* UEBAMonitor.agent_activity_counts
    model,                  \* UEBAMonitor.model: None or a fitted model
    sklearn_available,      \* module flag SKLEARN_AVAILABLE
    now,                    \* datetime.utcnow(), in seconds
    recorded,               \* history: every event ever appended, in arrival order
    last,                   \* history: the latest log_agent_activity call
    calls,                  \* history: number of log calls taken by the model
    ticks,                  \* history: number of clock steps taken by the model
    runs,                   \* the calls of MasterAgent.process_telematics_data
    summary,                \* history: the latest get_activity_summary call
    process,                \* history: the model file and what the construction
                            \* of the process's monitors did with it
    endpoint,               \* routes.py: the ledger of its own ueba_monitor and
                            \* the latest response of GET /ueba/activity
    diagnosed,              \* history: the latest predict_failures call made
                            \* on DiagnosisAgent directly
    scheduler,              \* the appointments table and the calls made on
                            \* SchedulingAgent
    ws_manager,             \* main.py: the websockets and active_connections
    telematics_simulator    \* main.py: running, thread and the loop threads

\* the state outside MasterAgent and its monitor
elsewhere == <<endpoint, diagnosed, scheduler, ws_manager, telematics_simulator>>

vars == <<activity_logs, agent_activity_counts, model, sklearn_available,
          now, recorded, last, calls, ticks, runs, summary, process,
          elsewhere>>

----------------------------------------------------------------------------
(* Bounds of the exploration *)

MaxCalls == 2
MaxTicks == 1
MaxOverflowCalls == 4
MaxSummaries == 1
MaxCancels == 1
MaxThreads == 2

----------------------------------------------------------------------------
(* Program constants *)

LedgerCapacity == 10000
RecentWindow == 100
RateWindowSeconds == 60
MinHistory == 5
MinLogsForModel == 10
SecondsPerDay == 86400
SecondsPerHour == 3600

None == <<>>
Some(x) == <<x>>

\* normal_patterns with get_vehicle_status missing from the allowed_actions
\* of master_agent
normal_patterns_without_status ==
    [master_agent |->
        [max_calls_per_minute |-> 100,
         allowed_actions |-> {"process_telematics_data", "handle_customer_query",
                              "schedule_maintenance", "submit_feedback"}],
     data_analysis_agent |->
        [max_calls_per_minute |-> 200,
         allowed_actions |-> {"analyze_data", "get_latest_analysis"}],
     diagnosis_agent |->
        [max_calls_per_minute |-> 100,
         allowed_actions |-> {"predict_failures", "get_predictions"}],
     customer_agent |->
        [max_calls_per_minute |-> 50,
         allowed_actions |-> {"process_message", "send_alert"}],
     scheduling_agent |->
        [max_calls_per_minute |-> 30,
         allowed_actions |-> {"schedule_appointment", "auto_schedule",
                              "get_available_slots", "cancel_appointment"}],
     feedback_agent |->
        [max_calls_per_minute |-> 20,
         allowed_actions |-> {"process_feedback", "get_feedback_summary"}]]

normal_patterns ==
    [master_agent |->
        [max_calls_per_minute |-> 100,
         allowed_actions |-> {"process_telematics_data", "handle_customer_query",
                              "schedule_maintenance", "submit_feedback",
                              "get_vehicle_status"}],
     data_analysis_agent |->
        [max_calls_per_minute |-> 200,
         allowed_actions |-> {"analyze_data", "get_latest_analysis"}],
     diagnosis_agent |->
        [max_calls_per_minute |-> 100,
         allowed_actions |-> {"predict_failures", "get_predictions"}],
     customer_agent |->
        [max_calls_per_minute |-> 50,
         allowed_actions |-> {"process_message", "send_alert"}],
     scheduling_agent |->
        [max_calls_per_minute |-> 30,
         allowed_actions |-> {"schedule_appointment", "auto_schedule",
                              "get_available_slots", "cancel_appointment"}],
     feedback_agent |->
        [max_calls_per_minute |-> 20,
         allowed_actions |-> {"process_feedback", "get_feedback_summary"}]]

agent_id_map ==
    [master_agent |-> 0, data_analysis_agent |-> 1, diagnosis_agent |-> 2,
     customer_agent |-> 3, scheduling_agent |-> 4, feedback_agent |-> 5]

----------------------------------------------------------------------------
(* Python helpers *)

\* seq[-n:]
Min(a, b) == IF a < b THEN a ELSE b

LastN(seq, n) ==
    IF Len(seq) > n THEN SubSeq(seq, Len(seq) - n + 1, Len(seq)) ELSE seq

\* timedelta.seconds of a difference d of two datetimes, d in seconds:
\* the seconds field of the normalised (days, seconds) pair
TimedeltaSeconds(d) == d % SecondsPerDay

\* datetime.hour and datetime.weekday() of the clock value t
HourOf(t) == (t \div SecondsPerHour) % 24
WeekdayOf(t) == (t \div SecondsPerDay) % 7

\* metadata or {}
MetadataOrEmpty(metadata) == IF metadata = None THEN "{}" ELSE metadata[1]

Activity(agent_name, action, metadata, t) ==
    [agent |-> agent_name, action |-> action,
     metadata |-> MetadataOrEmpty(metadata),
     timestamp |-> t, hour |-> HourOf(t), day_of_week |-> WeekdayOf(t)]

----------------------------------------------------------------------------
(* UEBAMonitor._load_or_create_model / _create_model *)

FittedModel == "IsolationForest"
NoModel == "None"

CreateModel(sklearn) == IF sklearn THEN FittedModel ELSE NoModel

\* file: "absent", "loadable", "corrupt" (joblib.load raises), or "locked"
\* (the process may neither read nor write it: joblib.load and joblib.dump
\* both raise)
LoadOrCreateModel(file, sklearn) ==
    IF file = "loadable" THEN FittedModel ELSE CreateModel(sklearn)

\* the UEBAMonitor() calls made while main.py is imported, in order:
\* MasterAgent.__init__ (routes.py:15), routes.py:18, main.py:23
Owners == <<"MasterAgent", "routes", "main">>

NewProcess(file) ==
    [found |-> file, model_file |-> file, loads |-> 0, trainings |-> 0,
     writes |-> 0, monitors |-> <<>>, raised |-> FALSE]

\* joblib.dump(model, self.model_path) raises; nothing catches it
DumpRaises(file) == file = "locked"

\* UEBAMonitor.__init__ -> _load_or_create_model: joblib.load is tried when
\* the file exists; _create_model runs when it is absent or the load raises,
\* and with scikit-learn it fits a model and dumps it to the file; an error
\* of the dump leaves __init__
ConstructMonitor(p, owner, sklearn) ==
    LET loads == p.model_file # "absent"
        creates == p.model_file # "loadable"
        trains == creates /\ sklearn
    IN  IF trains /\ DumpRaises(p.model_file)
        THEN [p EXCEPT !.loads = @ + 1, !.trainings = @ + 1, !.raised = TRUE]
        ELSE [p EXCEPT
                !.model_file = IF trains THEN "loadable" ELSE @,
                !.loads = @ + (IF loads THEN 1 ELSE 0),
                !.trainings = @ + (IF trains THEN 1 ELSE 0),
                !.writes = @ + (IF trains THEN 1 ELSE 0),
                !.monitors = Append(@, [owner |-> owner,
                                        model |-> LoadOrCreateModel(p.model_file,
                                                                    sklearn)])]

\* the import of main.py stops at the first constructor that raises
RECURSIVE Startup(_, _, _)
Startup(p, owners, sklearn) ==
    IF owners = <<>> \/ p.raised THEN p
    ELSE Startup(ConstructMonitor(p, Head(owners), sklearn), Tail(owners), sklearn)

----------------------------------------------------------------------------
(* UEBAMonitor._extract_features *)

AgentEvents(logs, agent_name) ==
    LET OfAgent(log) == log.agent = agent_name
    IN  SelectSeq(logs, OfAgent)

AgentId(agent_name) ==
    IF agent_name \in DOMAIN agent_id_map THEN agent_id_map[agent_name] ELSE 0

\* ExtractFeatures without the minimum of 5 events
ExtractFeaturesNoMinimum(logs, agent_name, action, t) ==
    LET recent_activities == AgentEvents(LastN(logs, RecentWindow), agent_name)
    IN  <<AgentId(agent_name), Len(recent_activities),
          HourOf(t), WeekdayOf(t), 1>>

\* ExtractFeatures giving no features for an entity missing from agent_id_map
ExtractFeaturesKnownOnly(logs, agent_name, action, t) ==
    LET recent_activities == AgentEvents(LastN(logs, RecentWindow), agent_name)
    IN  IF Len(recent_activities) < MinHistory \/ agent_name \notin DOMAIN agent_id_map
        THEN None
        ELSE <<AgentId(agent_name), Len(recent_activities),
               HourOf(t), WeekdayOf(t), 1>>

\* None, or the feature vector
\*   <<agent_id, actions_per_hour, current_hour, current_day, success_rate>>
ExtractFeatures(logs, agent_name, action, t) ==
    LET recent_activities == AgentEvents(LastN(logs, RecentWindow), agent_name)
    IN  IF Len(recent_activities) < MinHistory
        THEN None
        ELSE <<AgentId(agent_name), Len(recent_activities),
               HourOf(t), WeekdayOf(t), 1>>

----------------------------------------------------------------------------
(* UEBAMonitor._check_anomaly *)

\* What model.predict([features]) does on one call: it raises, or it returns
\* [1] (inlier) or [-1] (outlier).
PredictOutcomes ==
    {[raises |-> FALSE, value |-> 1],
     [raises |-> FALSE, value |-> -1],
     [raises |-> TRUE, value |-> 1]}

\* RecentActivities taken from the whole ledger instead of its last 100
RecentActivitiesWholeLedger(logs, agent_name, t) ==
    LET Recent(log) ==
            /\ log.agent = agent_name
            /\ TimedeltaSeconds(t - log.timestamp) < RateWindowSeconds
    IN  SelectSeq(logs, Recent)

\* recent_activities of check 1
RecentActivities(logs, agent_name, t) ==
    LET Recent(log) ==
            /\ log.agent = agent_name
            /\ TimedeltaSeconds(t - log.timestamp) < RateWindowSeconds
    IN  SelectSeq(LastN(logs, RecentWindow), Recent)

\* RateLimitFindings with the strictest profile applied to an entity that
\* has none
RateLimitFindingsDefaultProfile(logs, agent_name, t) ==
    LET pattern == IF agent_name \in DOMAIN normal_patterns
                   THEN normal_patterns[agent_name]
                   ELSE normal_patterns["feedback_agent"]
    IN  IF Len(RecentActivities(logs, agent_name, t)) > pattern.max_calls_per_minute
        THEN << [type |-> "rate_limit_exceeded", severity |-> "high",
                 message |-> <<"exceeded rate limit", agent_name,
                               ToString(pattern.max_calls_per_minute)>>] >>
        ELSE <<>>

RateLimitFindings(logs, agent_name, t) ==
    IF agent_name \in DOMAIN normal_patterns
    THEN LET pattern == normal_patterns[agent_name]
         IN  IF Len(RecentActivities(logs, agent_name, t)) > pattern.max_calls_per_minute
             THEN << [type |-> "rate_limit_exceeded", severity |-> "high",
                      message |-> <<"exceeded rate limit", agent_name,
                                    ToString(pattern.max_calls_per_minute)>>] >>
             ELSE <<>>
    ELSE <<>>

UnauthorizedFindings(agent_name, action) ==
    IF agent_name \in DOMAIN normal_patterns
    THEN LET pattern == normal_patterns[agent_name]
         IN  IF action \notin pattern.allowed_actions
             THEN << [type |-> "unauthorized_action", severity |-> "critical",
                      message |-> <<"attempted unauthorized action", agent_name,
                                    action>>] >>
             ELSE <<>>
    ELSE <<>>

\* The body of the try block of check 3: [raised, outcome, found]
ModelDetection(logs, agent_name, action, t, oracle) ==
    LET features == ExtractFeatures(logs, agent_name, action, t)
    IN  IF features # <<>>
        THEN IF oracle.raises
             THEN [raised |-> TRUE, outcome |-> "error", found |-> <<>>]
             ELSE IF oracle.value = -1
                  THEN [raised |-> FALSE, outcome |-> "outlier",
                        found |-> << [type |-> "ml_anomaly", severity |-> "medium",
                                      message |-> <<"ML model detected anomalous pattern",
                                                    agent_name>>] >>]
                  ELSE [raised |-> FALSE, outcome |-> "inlier", found |-> <<>>]
        ELSE [raised |-> FALSE, outcome |-> "no_features", found |-> <<>>]

\* ModelFindings without the try / except around check 3
ModelFindingsNoExcept(logs, agent_name, action, t, mdl, sklearn, oracle) ==
    IF mdl # NoModel /\ sklearn /\ Len(logs) >= MinLogsForModel
    THEN ModelDetection(logs, agent_name, action, t, oracle)
    ELSE [raised |-> FALSE, outcome |-> "skipped", found |-> <<>>]

ModelFindings(logs, agent_name, action, t, mdl, sklearn, oracle) ==
    IF mdl # NoModel /\ sklearn /\ Len(logs) >= MinLogsForModel
    THEN LET body == ModelDetection(logs, agent_name, action, t, oracle)
         IN  \* except Exception: pass
             [raised |-> FALSE, outcome |-> body.outcome,
              found |-> IF body.raised THEN <<>> ELSE body.found]
    ELSE [raised |-> FALSE, outcome |-> "skipped", found |-> <<>>]

Report(anomalies, agent_name, action) ==
    [detected |-> TRUE, anomalies |-> anomalies,
     agent |-> agent_name, action |-> action]

\* CheckAnomaly with check 2 skipped once check 1 has a finding
CheckAnomalyShortCircuit(logs, agent_name, action, t, mdl, sklearn, oracle) ==
    LET ml == ModelFindings(logs, agent_name, action, t, mdl, sklearn, oracle)
        rate == RateLimitFindings(logs, agent_name, t)
        anomalies == rate
                     \o (IF rate # <<>> THEN <<>>
                         ELSE UnauthorizedFindings(agent_name, action))
                     \o ml.found
    IN  [anomalies |-> anomalies,
         result |-> IF anomalies # <<>>
                    THEN Some(Report(anomalies, agent_name, action))
                    ELSE None,
         raised |-> ml.raised,
         ml |-> ml.outcome]

\* CheckAnomaly returning None at once when there is no model
CheckAnomalyNeedsModel(logs, agent_name, action, t, mdl, sklearn, oracle) ==
    LET ml == ModelFindings(logs, agent_name, action, t, mdl, sklearn, oracle)
        anomalies == IF mdl = NoModel THEN <<>>
                     ELSE RateLimitFindings(logs, agent_name, t)
                          \o UnauthorizedFindings(agent_name, action)
                          \o ml.found
    IN  [anomalies |-> anomalies,
         result |-> IF anomalies # <<>>
                    THEN Some(Report(anomalies, agent_name, action))
                    ELSE None,
         raised |-> ml.raised,
         ml |-> ml.outcome]

\* [anomalies: the local list, result: the value returned (None or the
\*  report), raised: an exception leaves the method, ml: outcome of check 3]
CheckAnomaly(logs, agent_name, action, t, mdl, sklearn, oracle) ==
    LET ml == ModelFindings(logs, agent_name, action, t, mdl, sklearn, oracle)
        anomalies == RateLimitFindings(logs, agent_name, t)
                     \o UnauthorizedFindings(agent_name, action)
                     \o ml.found
    IN  [anomalies |-> anomalies,
         result |-> IF anomalies # <<>>
                    THEN Some(Report(anomalies, agent_name, action))
                    ELSE None,
         raised |-> ml.raised,
         ml |-> ml.outcome]

----------------------------------------------------------------------------
(* UEBAMonitor.log_agent_activity *)

\* AppendActivity without the trim
AppendActivityNoTrim(logs, activity) == Append(logs, activity)

\* AppendActivity trimming to the first 10000 instead of the last
AppendActivityKeepsOldest(logs, activity) ==
    LET appended == Append(logs, activity)
    IN  IF Len(appended) > LedgerCapacity
        THEN SubSeq(appended, 1, LedgerCapacity)
        ELSE appended

\* AppendActivity rewriting the entity of the event that was the newest
AppendActivityRewritesNewest(logs, activity) ==
    LET rewritten == IF logs = <<>> THEN logs
                     ELSE [logs EXCEPT ![Len(logs)].agent = activity.agent]
        appended == Append(rewritten, activity)
    IN  IF Len(appended) > LedgerCapacity
        THEN LastN(appended, LedgerCapacity)
        ELSE appended

\* AppendActivity with the trim taken from the list as it was before the
\* append: the lost update of an append that is not atomic with the trim
AppendActivityStaleTrim(logs, activity) ==
    IF Len(logs) + 1 > LedgerCapacity
    THEN LastN(logs, LedgerCapacity)
    ELSE Append(logs, activity)

\* self.activity_logs after the append and the trim to the last 10000
AppendActivity(logs, activity) ==
    LET appended == Append(logs, activity)
    IN  IF Len(appended) > LedgerCapacity
        THEN LastN(appended, LedgerCapacity)
        ELSE appended

\* key = f"{agent_name}:{action}"
ActivityKey(agent_name, action) == agent_name \o ":" \o action

\* self.agent_activity_counts[key] += 1 on a defaultdict(int)
CountActivity(counts, key) ==
    IF key \in DOMAIN counts
    THEN [counts EXCEPT ![key] = @ + 1]
    ELSE counts @@ (key :> 1)

\* the security_log entry _handle_anomaly builds and logs (its timestamp is
\* the time of the call, which the ledger entry already carries)
HandleAnomaly(activity, anomaly) ==
    [activity |-> activity, anomaly |-> anomaly, action_taken |-> "logged"]

\* HandlerCalls with the handler invoked once for each finding of the report
HandlerCallsPerFinding(activity, check) ==
    IF check.result # None /\ ~check.raised
    THEN [i \in 1..Len(check.anomalies) |->
             HandleAnomaly(activity, check.result[1])]
    ELSE <<>>

\* if anomaly: self._handle_anomaly(activity, anomaly)
\* the invocations of the handler made by one log_agent_activity call
HandlerCalls(activity, check) ==
    IF check.result # None /\ ~check.raised
    THEN << HandleAnomaly(activity, check.result[1]) >>
    ELSE <<>>

NoCall ==
    [called |-> FALSE, agent |-> "", action |-> "", time |-> 0,
     anomalies |-> <<>>, anomaly |-> None, handled |-> None,
     returned |-> None, raised |-> FALSE, ml |-> "skipped"]

log_agent_activity(agent_name, action, metadata, oracle) ==
    LET activity == Activity(agent_name, action, metadata, now)
        logs == AppendActivity(activity_logs, activity)
        check == CheckAnomaly(logs, agent_name, action, now, model,
                              sklearn_available, oracle)
    IN  /\ activity_logs' = logs
        /\ recorded' = Append(recorded, activity)
        /\ agent_activity_counts' =
              IF check.raised THEN agent_activity_counts
              ELSE CountActivity(agent_activity_counts,
                                 ActivityKey(agent_name, action))
        /\ last' = [called |-> TRUE, agent |-> agent_name, action |-> action,
                    time |-> now,
                    anomalies |-> check.anomalies,
                    anomaly |-> check.result,
                    handled |-> HandlerCalls(activity, check),
                    \* the method has no return statement
                    returned |-> None,
                    raised |-> check.raised,
                    ml |-> check.ml]

----------------------------------------------------------------------------
(* UEBAMonitor.get_activity_summary *)

\* datetime.isoformat()
IsoFormat(t) == ToString(t)

\* if agent_name: None and the empty string both select every event
Truthy(agent_name) == agent_name # None /\ agent_name # Some("")

\* ActivitySummary reporting the first ten matching events, activities[:10]
ActivitySummaryFirstTen(logs, agent_name) ==
    LET activities == IF Truthy(agent_name)
                      THEN AgentEvents(logs, agent_name[1])
                      ELSE logs
        idx == DOMAIN activities
        agents == {activities[i].agent : i \in idx}
        keys == {ActivityKey(activities[i].agent, activities[i].action) :
                    i \in idx}
    IN  IF activities = <<>>
        THEN [total_activities |-> 0]
        ELSE [total_activities |-> Len(activities),
              by_agent |->
                 [a \in agents |->
                     Cardinality({i \in idx : activities[i].agent = a})],
              by_action |->
                 [k \in keys |->
                     Cardinality({i \in idx :
                        ActivityKey(activities[i].agent,
                                    activities[i].action) = k})],
              recent_activities |->
                 LET recent == SubSeq(activities, 1, Min(10, Len(activities)))
                 IN  [i \in DOMAIN recent |->
                         [agent |-> recent[i].agent,
                          action |-> recent[i].action,
                          timestamp |-> IsoFormat(recent[i].timestamp)]]]

\* the value get_activity_summary returns
ActivitySummary(logs, agent_name) ==
    LET activities == IF Truthy(agent_name)
                      THEN AgentEvents(logs, agent_name[1])
                      ELSE logs
        idx == DOMAIN activities
        agents == {activities[i].agent : i \in idx}
        keys == {ActivityKey(activities[i].agent, activities[i].action) :
                    i \in idx}
    IN  IF activities = <<>>
        THEN [total_activities |-> 0]
        ELSE [total_activities |-> Len(activities),
              by_agent |->
                 [a \in agents |->
                     Cardinality({i \in idx : activities[i].agent = a})],
              by_action |->
                 [k \in keys |->
                     Cardinality({i \in idx :
                        ActivityKey(activities[i].agent,
                                    activities[i].action) = k})],
              recent_activities |->
                 LET recent == LastN(activities, 10)
                 IN  [i \in DOMAIN recent |->
                         [agent |-> recent[i].agent,
                          action |-> recent[i].action,
                          timestamp |-> IsoFormat(recent[i].timestamp)]]]

\* LedgerAfterSummary with the ledger cut down to the events reported as
\* recent_activities
LedgerAfterSummaryKeepsRecent(logs, agent_name) == LastN(logs, 10)

\* self.activity_logs after get_activity_summary: the method binds and
\* reads the list and assigns nothing to self
LedgerAfterSummary(logs, agent_name) == logs

NoSummary == [taken |-> 0, agent |-> None, value |-> None, at |-> 0]

get_activity_summary(agent_name) ==
    /\ summary' = [taken |-> summary.taken + 1, agent |-> agent_name,
                   value |-> Some(ActivitySummary(activity_logs, agent_name)),
                   at |-> Len(recorded)]
    /\ activity_logs' = LedgerAfterSummary(activity_logs, agent_name)

----------------------------------------------------------------------------
(* routes.py: GET /ueba/activity *)

\* routes.py line 18 builds a UEBAMonitor of its own, whose activity_logs
\* is [] after __init__; no statement of the repository calls
\* log_agent_activity on it
NoEndpoint ==
    [activity_logs |-> <<>>, taken |-> 0, agent |-> None, value |-> None,
     at |-> 0]

\* summary = ueba_monitor.get_activity_summary(agent_name); the response
\* carries it as "data"
get_ueba_activity(agent_name) ==
    endpoint' = [endpoint EXCEPT
                    !.taken = @ + 1,
                    !.agent = agent_name,
                    !.value = Some(ActivitySummary(endpoint.activity_logs,
                                                   agent_name)),
                    !.at = Len(recorded)]

----------------------------------------------------------------------------
(* Inputs *)

SummaryInputs == {None, Some(""), Some("feedback_agent"), Some("diagnosis_agent")}

AgentInputs == {"master_agent", "feedback_agent", "guest_agent"}
ActionInputs == {"process_telematics_data", "process_feedback"}
MetadataInputs == {None}
ModelFiles == {"absent", "loadable", "corrupt"}
TickSteps == {60, 86400}

VehicleInputs == {"V9"}
SensorInputs == {[vehicle_id |-> "V9", timestamp |-> Some("t0")]}
Collaborators == {"analyze_data", "predict_failures", "send_alert", "auto_schedule"}

\* what analyze_data returns: health scores and detected anomalies
AnalysisInputs ==
    { [health_scores |-> [battery |-> 100, engine |-> 100, brakes |-> 100,
                          oil |-> 100, overall |-> 100], anomalies |-> <<>>],
      [health_scores |-> [battery |-> 30, engine |-> 40, brakes |-> 30,
                          oil |-> 40, overall |-> 50], anomalies |-> <<>>],
      [health_scores |-> [battery |-> 29, oil |-> 39], anomalies |-> <<>>],
      [health_scores |-> [battery |-> 30, engine |-> 39], anomalies |-> <<>>],
      [health_scores |-> [brakes |-> 29], anomalies |-> <<"brake_wear">>],
      [health_scores |-> [oil |-> 39, overall |-> 49], anomalies |-> <<>>],
      [health_scores |-> [overall |-> 49], anomalies |-> <<>>],
      [health_scores |-> [overall |-> 50], anomalies |-> <<"engine_overheat">>] }

\* A block is a run of count calls log_agent_activity(agent, action) made
\* within the second 0; a prefill is a sequence of blocks.  Burst(p) is the
\* ledger those calls leave behind (no trim: each prefill is within capacity).
Block(agent_name, action, count) ==
    [agent |-> agent_name, action |-> action, count |-> count]

RECURSIVE Burst(_)
Burst(blocks) ==
    IF blocks = <<>> THEN <<>>
    ELSE [i \in 1..blocks[1].count |->
             Activity(blocks[1].agent, blocks[1].action, None, 0)]
         \o Burst(Tail(blocks))

RECURSIVE BurstCounts(_)
BurstCounts(blocks) ==
    IF blocks = <<>> THEN <<>>
    ELSE LET rest == BurstCounts(Tail(blocks))
             key == ActivityKey(blocks[1].agent, blocks[1].action)
         IN  IF blocks[1].count = 0 THEN rest
             ELSE IF key \in DOMAIN rest
                  THEN [rest EXCEPT ![key] = @ + blocks[1].count]
                  ELSE rest @@ (key :> blocks[1].count)

Prefills ==
    { <<>>,
      << Block("feedback_agent", "process_feedback", 19) >>,
      << Block("master_agent", "process_telematics_data", 99) >>,
      << Block("feedback_agent", "process_feedback", 20),
         Block("guest_agent", "process_feedback", 99) >>,
      << Block("guest_agent", "process_feedback", 8) >> }

\* the monitor of a MasterAgent that has handled nine requests
PrefillsPipeline ==
    { <<>>,
      << Block("master_agent", "process_telematics_data", 9) >> }

PrefillsNearCapacity ==
    { << Block("guest_agent", "process_feedback", 9998) >>,
      << Block("feedback_agent", "process_feedback", 3),
         Block("guest_agent", "process_feedback", 9996) >> }

----------------------------------------------------------------------------
(* DiagnosisAgent.predict_failures: the verdict fields *)

\* dict.get(key, default)
Get(dict, key, default) == IF key \in DOMAIN dict THEN dict[key] ELSE default

Verdict(critical_alert, auto_schedule, recommended_service, alert_level) ==
    [critical_alert |-> critical_alert, alert_level |-> alert_level,
     auto_schedule |-> auto_schedule,
     recommended_service |-> recommended_service,
     scheduling |-> None]

\* PredictFailures with the oil rule tried before the brakes rule
PredictFailuresOilBeforeBrakes(analysis_result) ==
    LET health_scores == Get(analysis_result, "health_scores", <<>>)
        anomalies == Get(analysis_result, "anomalies", <<>>)
    IN  IF Get(health_scores, "battery", 100) < 30
        THEN Verdict(TRUE, TRUE, Some("battery_replacement"), "critical")
        ELSE IF Get(health_scores, "engine", 100) < 40
        THEN Verdict(TRUE, TRUE, Some("engine_inspection"), "critical")
        ELSE IF Get(health_scores, "oil", 100) < 40
        THEN Verdict(TRUE, FALSE, Some("oil_change"), "warning")
        ELSE IF Get(health_scores, "brakes", 100) < 30
        THEN Verdict(TRUE, TRUE, Some("brake_replacement"), "critical")
        ELSE IF Get(health_scores, "overall", 100) < 50
        THEN Verdict(TRUE, FALSE, Some("general_inspection"), "warning")
        ELSE IF Len(anomalies) > 0
        THEN Verdict(TRUE, FALSE, Some("diagnostic_check"), "warning")
        ELSE Verdict(FALSE, FALSE, None, "info")

\* lines 35-78: the verdict fields of the result
PredictFailures(analysis_result) ==
    LET health_scores == Get(analysis_result, "health_scores", <<>>)
        anomalies == Get(analysis_result, "anomalies", <<>>)
    IN  IF Get(health_scores, "battery", 100) < 30
        THEN Verdict(TRUE, TRUE, Some("battery_replacement"), "critical")
        ELSE IF Get(health_scores, "engine", 100) < 40
        THEN Verdict(TRUE, TRUE, Some("engine_inspection"), "critical")
        ELSE IF Get(health_scores, "brakes", 100) < 30
        THEN Verdict(TRUE, TRUE, Some("brake_replacement"), "critical")
        ELSE IF Get(health_scores, "oil", 100) < 40
        THEN Verdict(TRUE, FALSE, Some("oil_change"), "warning")
        ELSE IF Get(health_scores, "overall", 100) < 50
        THEN Verdict(TRUE, FALSE, Some("general_inspection"), "warning")
        ELSE IF Len(anomalies) > 0
        THEN Verdict(TRUE, FALSE, Some("diagnostic_check"), "warning")
        ELSE Verdict(FALSE, FALSE, None, "info")

NoDiagnosis == [analysis_result |-> None, result |-> None]

\* the thresholds of the five health-score rules, to build inputs on both
\* sides of each
ScoreLimits ==
    [battery |-> 30, engine |-> 40, brakes |-> 30, oil |-> 40, overall |-> 50]

\* health_scores with any of the five scores absent, just below its limit
\* or at its limit
HealthScoreInputs ==
    UNION { { [k \in K |-> ScoreLimits[k] - below[k]] : below \in [K -> {0, 1}] } :
            K \in SUBSET DOMAIN ScoreLimits }

\* analysis results: health scores with or without detected anomalies, and
\* results that lack health_scores or anomalies
DiagnosisInputs ==
    { [health_scores |-> h, anomalies |-> a] :
          h \in HealthScoreInputs, a \in {<<>>, <<"engine_overheat">>} }
    \cup { [anomalies |-> <<"brake_wear">>],
           [health_scores |-> [oil |-> 39]],
           [metrics |-> "none"] }

\* await diagnosis_agent.predict_failures(vehicle_id, analysis_result)
Predict ==
    /\ diagnosed.result = None
    /\ \E analysis_result \in DiagnosisInputs :
          diagnosed' = [analysis_result |-> Some(analysis_result),
                        result |-> Some(PredictFailures(analysis_result))]
    /\ UNCHANGED <<activity_logs, agent_activity_counts, model,
                   sklearn_available, now, recorded, last, calls, ticks, runs,
                   summary, process, endpoint, scheduler, ws_manager,
                   telematics_simulator>>

----------------------------------------------------------------------------
(* SchedulingAgent and the appointments table *)

\* A datetime of the scheduler is <<day, minute of the day>>; the ISO string
\* of a datetime is written as the pair itself, and NotIso is a string that
\* datetime.fromisoformat rejects.
NotIso == <<-1>>

\* datetime.fromisoformat: [raised, value]
FromIsoFormat(text) ==
    IF Len(text) = 2 /\ text[1] >= 0 /\ text[2] \in 0..1439
    THEN [raised |-> FALSE, value |-> text]
    ELSE [raised |-> TRUE, value |-> <<0, 0>>]

\* datetime.now(), the clock of the model read as local time
DatetimeNow(t) == <<t \div SecondsPerDay, (t % SecondsPerDay) \div 60>>

PlusDays(date, days) == <<date[1] + days, date[2]>>

\* self.available_slots = list(range(9, 17))
available_slots == <<9, 10, 11, 12, 13, 14, 15, 16>>

\* DatabaseService.get_appointments_by_date: the rows of the day (from
\* datetime.min.time() to datetime.max.time()) with status "scheduled"
GetAppointmentsByDate(appointments, day) ==
    LET OnDay(apt) == apt.date[1] = day /\ apt.status = "scheduled"
    IN  SelectSeq(appointments, OnDay)

\* FindAvailableSlot returning the last free slot of the day
FindAvailableSlotLatest(appointments, date) ==
    LET existing_appointments == GetAppointmentsByDate(appointments, date[1])
        booked_times == {existing_appointments[i].time :
                            i \in DOMAIN existing_appointments}
        free == {i \in DOMAIN available_slots :
                    available_slots[i] \notin booked_times}
    IN  IF free = {} THEN None
        ELSE LET i == CHOOSE x \in free : \A y \in free : x >= y
             IN  Some([date |-> date, time |-> available_slots[i]])

\* SchedulingAgent._find_available_slot: None, or the first slot of
\* available_slots that no scheduled appointment of the day has
FindAvailableSlot(appointments, date) ==
    LET existing_appointments == GetAppointmentsByDate(appointments, date[1])
        booked_times == {existing_appointments[i].time :
                            i \in DOMAIN existing_appointments}
        free == {i \in DOMAIN available_slots :
                    available_slots[i] \notin booked_times}
    IN  IF free = {} THEN None
        ELSE LET i == CHOOSE x \in free : \A y \in free : x <= y
             IN  Some([date |-> date, time |-> available_slots[i]])

\* lines 37-43: the preferred date if one is given and parses, else
\* tomorrow at the current time
AppointmentDate(preferred_date, t) ==
    IF preferred_date # None /\ preferred_date # Some(<<>>)
    THEN LET parsed == FromIsoFormat(preferred_date[1])
         IN  IF parsed.raised THEN PlusDays(DatetimeNow(t), 1)
             ELSE parsed.value
    ELSE PlusDays(DatetimeNow(t), 1)

\* DatabaseService.store_appointment: one new row; uuid4 is the row number
StoreAppointment(appointments, appointment_data) ==
    Append(appointments,
           [id |-> Len(appointments) + 1,
            vehicle_id |-> appointment_data.vehicle_id,
            service_type |-> appointment_data.service_type,
            date |-> FromIsoFormat(appointment_data.date).value,
            time |-> appointment_data.time,
            status |-> Get(appointment_data, "status", "scheduled")])

\* DatabaseService.cancel_appointment
CancelRow(appointments, appointment_id) ==
    [i \in DOMAIN appointments |->
        IF appointments[i].id = appointment_id
        THEN [appointments[i] EXCEPT !.status = "cancelled"]
        ELSE appointments[i]]

\* lines 60-68: the appointment built for the slot found
NewAppointment(vehicle_id, service_type, available_slot) ==
    [vehicle_id |-> vehicle_id, service_type |-> service_type,
     date |-> available_slot.date, time |-> available_slot.time,
     status |-> "scheduled"]

\* schedule_appointment from its first statement to its return, on the
\* table it finds: the table it leaves and the dict it returns
ScheduleOn(appointments, vehicle_id, service_type, preferred_date, t) ==
    LET appointment_date == AppointmentDate(preferred_date, t)
        first == FindAvailableSlot(appointments, appointment_date)
        available_slot ==
            IF first # None THEN first
            ELSE FindAvailableSlot(appointments, PlusDays(appointment_date, 1))
    IN  IF available_slot = None
        THEN [appointments |-> appointments,
              result |-> [status |-> "error", appointment |-> None]]
        ELSE LET appointment == NewAppointment(vehicle_id, service_type,
                                               available_slot[1])
             IN  [appointments |-> StoreAppointment(appointments, appointment),
                  result |-> [status |-> "scheduled",
                              appointment |-> Some(appointment)]]

\* auto_schedule: schedule_appointment for tomorrow at the current time;
\* a service_type of None is stored as the empty text
AutoScheduleOn(appointments, vehicle_id, recommended_service, t) ==
    ScheduleOn(appointments, vehicle_id,
               IF recommended_service = None THEN "" ELSE recommended_service[1],
               Some(PlusDays(DatetimeNow(t), 1)), t)

SchedulingCalls == {1, 2}

\* preferred_date: none, empty, not an ISO string, day 1 at 10:30, day 2
PreferredDateInputs == {None, Some(<<>>), Some(NotIso), Some(<<1, 630>>), Some(<<2, 0>>)}

\* pc is the await the call is at, or idle / done; before and after are
\* history: the table when the call was made and when it returned
IdleCall ==
    [pc |-> "idle", operation |-> "", preferred_date |-> None,
     appointment_date |-> <<0, 0>>, available_slot |-> None,
     result |-> None, before |-> <<>>, after |-> <<>>]

NoScheduler ==
    [appointments |-> <<>>, cancels |-> 0,
     calls |-> [c \in SchedulingCalls |-> IdleCall]]

\* a table of earlier bookings: one row per <<day, time, status>>, stored
\* at 08:00 of its day
Table(rows) ==
    [i \in DOMAIN rows |->
        [id |-> i, vehicle_id |-> "V1", service_type |-> "general_service",
         date |-> <<rows[i][1], 480>>, time |-> rows[i][2],
         status |-> rows[i][3]]]

\* the day booked from 9 up to the hour given
BookedUpTo(day, hour) == [i \in 1..(hour - 8) |-> <<day, i + 8, "scheduled">>]

\* tables the program can have built: empty; day 1 with one slot left; day 1
\* full and day 2 with one slot left; both days full; day 1 with slot 10
\* cancelled between two bookings
TablesAtStart ==
    {<<>>,
     Table(BookedUpTo(1, 15)),
     Table(BookedUpTo(1, 16) \o BookedUpTo(2, 15)),
     Table(BookedUpTo(1, 16) \o BookedUpTo(2, 16)),
     Table(<<<<1, 9, "scheduled">>, <<1, 10, "cancelled">>,
             <<1, 11, "scheduled">>>>)}


\* SchedulingLoopFree with every await of the agent a suspension point
SchedulingLoopFreeAtAwaits == TRUE

\* get_appointments_by_date and store_appointment are coroutines with
\* synchronous bodies: a call on the agent does not yield the event loop
\* between its first statement and its return, so another call starts only
\* when none is under way
SchedulingLoopFree ==
    \A c \in SchedulingCalls : scheduler.calls[c].pc \in {"idle", "done"}

SchedulerUnchanged ==
    UNCHANGED <<activity_logs, agent_activity_counts, model, sklearn_available,
                now, recorded, last, calls, ticks, runs, summary, process,
                endpoint, diagnosed, ws_manager, telematics_simulator>>

\* lines 37-46, up to the first lookup
schedule_appointment(c, operation, preferred_date) ==
    /\ scheduler.calls[c].pc = "idle"
    /\ SchedulingLoopFree
    /\ scheduler' = [scheduler EXCEPT !.calls[c] =
          [@ EXCEPT !.pc = "find_first",
                    !.operation = operation,
                    !.preferred_date = preferred_date,
                    !.appointment_date = AppointmentDate(preferred_date, now),
                    !.before = scheduler.appointments]]
    /\ SchedulerUnchanged

ScheduleAppointment(c) ==
    \E preferred_date \in PreferredDateInputs :
        schedule_appointment(c, "schedule_appointment", preferred_date)

\* lines 94-96: tomorrow at the current time, as an ISO string
AutoSchedule(c) ==
    schedule_appointment(c, "auto_schedule", Some(PlusDays(DatetimeNow(now), 1)))

\* line 46 returns; lines 48-51
FindFirst(c) ==
    /\ scheduler.calls[c].pc = "find_first"
    /\ LET call == scheduler.calls[c]
           available_slot == FindAvailableSlot(scheduler.appointments,
                                               call.appointment_date)
       IN  scheduler' = [scheduler EXCEPT !.calls[c] =
              IF available_slot = None
              THEN [@ EXCEPT !.pc = "find_second",
                             !.appointment_date = PlusDays(@, 1)]
              ELSE [@ EXCEPT !.pc = "store",
                             !.available_slot = available_slot]]
    /\ SchedulerUnchanged

\* line 51 returns; lines 53-57
FindSecond(c) ==
    /\ scheduler.calls[c].pc = "find_second"
    /\ LET call == scheduler.calls[c]
           available_slot == FindAvailableSlot(scheduler.appointments,
                                               call.appointment_date)
       IN  scheduler' = [scheduler EXCEPT !.calls[c] =
              IF available_slot = None
              THEN [@ EXCEPT !.pc = "done",
                             !.result = Some([status |-> "error",
                                              appointment |-> None]),
                             !.after = scheduler.appointments]
              ELSE [@ EXCEPT !.pc = "store",
                             !.available_slot = available_slot]]
    /\ SchedulerUnchanged

\* lines 60-77: build the appointment, store it, return it
Store(c) ==
    /\ scheduler.calls[c].pc = "store"
    /\ LET call == scheduler.calls[c]
           appointment == NewAppointment("V9", "battery_replacement",
                                         call.available_slot[1])
           stored == StoreAppointment(scheduler.appointments, appointment)
       IN  scheduler' = [scheduler EXCEPT
              !.appointments = stored,
              !.calls[c] = [@ EXCEPT !.pc = "done",
                                     !.result = Some([status |-> "scheduled",
                                                      appointment |-> Some(appointment)]),
                                     !.after = stored]]
    /\ SchedulerUnchanged

\* SchedulingAgent.cancel_appointment of a row, or of an id without a row
CancelAppointment ==
    /\ SchedulingLoopFree
    /\ scheduler.cancels < MaxCancels
    /\ \E appointment_id \in 0..Len(scheduler.appointments) :
          /\ appointment_id \in DOMAIN scheduler.appointments =>
                scheduler.appointments[appointment_id].status = "scheduled"
          /\ scheduler' = [scheduler EXCEPT
                !.appointments = CancelRow(@, appointment_id),
                !.cancels = @ + 1]
    /\ SchedulerUnchanged

NextScheduling ==
    \/ \E c \in SchedulingCalls :
          \/ ScheduleAppointment(c)
          \/ AutoSchedule(c)
          \/ FindFirst(c)
          \/ FindSecond(c)
          \/ Store(c)
    \/ CancelAppointment

----------------------------------------------------------------------------
(* main.py: WebSocketManager and the websocket handlers *)

WebSockets == {1, 2, 3}
ClientIds == {"VEH001", "session-1"}
Routes == {"telematics", "chat"}

\* pc: new (no request yet), accepting (the handler awaits
\* websocket.accept() inside connect), open (the handler is in its loop),
\* ended
NewWebSocket ==
    [pc |-> "new", route |-> "", client_id |-> "", client_state |-> "CONNECTING"]

\* self.active_connections: Dict[str, List[WebSocket]] = {}
NoWsManager ==
    [websockets |-> [ws \in WebSockets |-> NewWebSocket],
     active_connections |-> <<>>]

\* lines 19-22 once accept has returned: the socket is connected and is
\* appended under the client id
connect(manager, websocket, client_id) ==
    LET accepted == [manager.websockets EXCEPT
                        ![websocket].client_state = "CONNECTED"]
        listed == IF client_id \in DOMAIN manager.active_connections
                  THEN manager.active_connections[client_id]
                  ELSE <<>>
    IN  [websockets |-> accepted,
         active_connections |->
            [c \in DOMAIN manager.active_connections \cup {client_id} |->
                IF c = client_id THEN Append(listed, websocket)
                ELSE manager.active_connections[c]]]

\* lines 26-32: keep the connections of the client id whose client_state is
\* not DISCONNECTED, and delete the key when none is left
disconnect(manager, client_id) ==
    IF client_id \in DOMAIN manager.active_connections
    THEN LET StillUp(ws) == manager.websockets[ws].client_state # "DISCONNECTED"
             kept == SelectSeq(manager.active_connections[client_id], StillUp)
         IN  [manager EXCEPT !.active_connections =
                [c \in IF kept = <<>>
                       THEN DOMAIN manager.active_connections \ {client_id}
                       ELSE DOMAIN manager.active_connections |->
                    IF c = client_id THEN kept
                    ELSE manager.active_connections[c]]]
    ELSE manager

ServicesUnchanged(other) ==
    UNCHANGED <<activity_logs, agent_activity_counts, model, sklearn_available,
                now, recorded, last, calls, ticks, runs, summary, process,
                endpoint, diagnosed, scheduler, other>>

\* websocket_telematics / websocket_chat called for a request: the handler
\* calls connect, which awaits websocket.accept()
HandlerRequested(ws) ==
    /\ ws_manager.websockets[ws].pc = "new"
    /\ \E route \in Routes, client_id \in ClientIds :
          ws_manager' = [ws_manager EXCEPT
              !.websockets[ws] = [@ EXCEPT !.pc = "accepting",
                                           !.route = route,
                                           !.client_id = client_id]]
    /\ ServicesUnchanged(telematics_simulator)

\* accept has returned: the rest of connect, and the handler enters its loop
HandlerConnects(ws) ==
    /\ ws_manager.websockets[ws].pc = "accepting"
    /\ LET accepted == [ws_manager EXCEPT !.websockets[ws].pc = "open"]
       IN  ws_manager' = connect(accepted, ws, ws_manager.websockets[ws].client_id)
    /\ ServicesUnchanged(telematics_simulator)

\* the client_state a WebSocketDisconnect leaves. receive_json raises it
\* after reading the disconnect message, which sets DISCONNECTED; send_json
\* raises it when the client is gone and leaves client_state CONNECTED. The
\* chat handler awaits both (lines 112 and 117), the telematics handler
\* only send_json (line 97)
ClientStateAtDisconnect(route) ==
    IF route = "chat" THEN {"CONNECTED", "DISCONNECTED"} ELSE {"CONNECTED"}

\* except WebSocketDisconnect: ws_manager.disconnect(client_id)
HandlerDisconnected(ws) ==
    /\ ws_manager.websockets[ws].pc = "open"
    /\ \E state \in ClientStateAtDisconnect(ws_manager.websockets[ws].route) :
          LET raised == [ws_manager EXCEPT
                  !.websockets[ws] = [@ EXCEPT !.pc = "ended",
                                               !.client_state = state]]
          IN  ws_manager' = disconnect(raised, ws_manager.websockets[ws].client_id)
    /\ ServicesUnchanged(telematics_simulator)

\* except Exception: the loop raised with the socket still connected (a chat
\* message that is not a JSON object, a failing process_message)
HandlerError(ws) ==
    /\ ws_manager.websockets[ws].pc = "open"
    /\ LET raised == [ws_manager EXCEPT !.websockets[ws].pc = "ended"]
       IN  ws_manager' = disconnect(raised, ws_manager.websockets[ws].client_id)
    /\ ServicesUnchanged(telematics_simulator)

----------------------------------------------------------------------------
(* main.py: TelematicsSimulator *)

SimThreads == 1..MaxThreads

\* self.running = False; self.thread = None; loops[t] is the place of the
\* thread t in _simulate_loop: unborn, checking (at the while test),
\* updating, sleeping, exited
NoSimulator ==
    [running |-> FALSE, thread |-> None,
     loops |-> [t \in SimThreads |-> "unborn"]]

\* lines 58-61
start(simulator) ==
    IF ~simulator.running
    THEN LET t == CHOOSE x \in SimThreads :
                     /\ simulator.loops[x] = "unborn"
                     /\ \A y \in SimThreads : simulator.loops[y] = "unborn" => x <= y
         IN  [simulator EXCEPT !.running = TRUE,
                               !.thread = Some(t),
                               !.loops[t] = "checking"]
    ELSE simulator

\* telematics_simulator.start() while a thread can still be created
Start ==
    /\ telematics_simulator.running
       \/ \E t \in SimThreads : telematics_simulator.loops[t] = "unborn"
    /\ telematics_simulator' = start(telematics_simulator)
    /\ ServicesUnchanged(ws_manager)

\* lines 65-67: join(timeout=1) returns when the thread has left the loop
\* (it was at the while test or woke from its sleep within the second) or
\* when the second is over
Stop ==
    /\ \E joined \in BOOLEAN :
          LET stopping == [telematics_simulator EXCEPT !.running = FALSE]
              thread == stopping.thread
          IN  /\ joined => /\ thread # None
                           /\ stopping.loops[thread[1]] \in {"checking", "sleeping"}
              /\ telematics_simulator' =
                    IF joined
                    THEN [stopping EXCEPT !.loops[thread[1]] = "exited"]
                    ELSE stopping
    /\ ServicesUnchanged(ws_manager)

\* line 71: while self.running
LoopChecks(t) ==
    /\ telematics_simulator.loops[t] = "checking"
    /\ telematics_simulator' = [telematics_simulator EXCEPT !.loops[t] =
          IF telematics_simulator.running THEN "updating" ELSE "exited"]
    /\ ServicesUnchanged(ws_manager)

\* lines 72-97: the vehicles are updated, then time.sleep(5)
LoopUpdates(t) ==
    /\ telematics_simulator.loops[t] = "updating"
    /\ telematics_simulator' = [telematics_simulator EXCEPT !.loops[t] = "sleeping"]
    /\ ServicesUnchanged(ws_manager)

\* line 97 returns
LoopWakes(t) ==
    /\ telematics_simulator.loops[t] = "sleeping"
    /\ telematics_simulator' = [telematics_simulator EXCEPT !.loops[t] = "checking"]
    /\ ServicesUnchanged(ws_manager)

NextServices ==
    \/ \E ws \in WebSockets :
          \/ HandlerRequested(ws)
          \/ HandlerConnects(ws)
          \/ HandlerDisconnected(ws)
          \/ HandlerError(ws)
    \/ Start
    \/ Stop
    \/ \E t \in SimThreads :
          \/ LoopChecks(t)
          \/ LoopUpdates(t)
          \/ LoopWakes(t)

----------------------------------------------------------------------------
(* MasterAgent.process_telematics_data *)

Runs == {1, 2}

\* pc is the collaborator call the run is awaiting, or idle / done / failed;
\* invoked and returned list the collaborator calls made and completed
IdleRun ==
    [pc |-> "idle", vehicle_id |-> "", timestamp |-> None, analysis |-> None,
     diagnosis |-> None, invoked |-> <<>>, returned |-> <<>>,
     outcome |-> None, failed_at |-> "", anomaly |-> None,
     \* history: the positions in recorded of the events the run appended
     logged |-> <<>>]

\* AfterRecord with the run stopped when the monitor reports the caller
AfterRecordBlocksFlagged(anomaly) ==
    IF anomaly # None THEN "blocked" ELSE "analyze_data"

\* lines 42-48: the value of log_agent_activity is not used; analyze_data is
\* called next whatever the monitor found
AfterRecord(anomaly) == "analyze_data"

\* AfterDiagnosis with the alert sent for every diagnosis
AfterDiagnosisAlways(diagnosis_result) == "send_alert"

\* if diagnosis_result.get("critical_alert", False): await send_alert(...)
AfterDiagnosis(diagnosis_result) ==
    IF Get(diagnosis_result, "critical_alert", FALSE) THEN "send_alert" ELSE "return"

\* AfterNotify with the appointment booked for every critical diagnosis
AfterNotifyAlways(diagnosis_result) == "auto_schedule"

\* if diagnosis_result.get("auto_schedule", False): await auto_schedule(...)
AfterNotify(diagnosis_result) ==
    IF Get(diagnosis_result, "auto_schedule", FALSE) THEN "auto_schedule" ELSE "return"

\* the dict the method returns
Outcome(run, diagnosis_result) ==
    [vehicle_id |-> run.vehicle_id, analysis |-> run.analysis[1],
     diagnosis |-> diagnosis_result, timestamp |-> run.timestamp]

\* Proceed with the return statement inside the critical_alert branch: a run
\* that skips the branch falls off the end of the method and returns None
ProceedReturnInsideBranch(run, diagnosis_result, next) ==
    IF next = "return"
    THEN [run EXCEPT !.pc = "done", !.diagnosis = Some(diagnosis_result),
                     !.returned = Append(@, run.pc),
                     !.outcome = IF Get(diagnosis_result, "critical_alert", FALSE)
                                 THEN Some(Outcome(run, diagnosis_result))
                                 ELSE None]
    ELSE [run EXCEPT !.pc = next, !.diagnosis = Some(diagnosis_result),
                     !.returned = Append(@, run.pc),
                     !.invoked = Append(@, next)]

\* the awaited call has returned: the run makes the collaborator call next,
\* or returns its outcome
Proceed(run, diagnosis_result, next) ==
    IF next = "return"
    THEN [run EXCEPT !.pc = "done", !.diagnosis = Some(diagnosis_result),
                     !.returned = Append(@, run.pc),
                     !.outcome = Some(Outcome(run, diagnosis_result))]
    ELSE [run EXCEPT !.pc = next, !.diagnosis = Some(diagnosis_result),
                     !.returned = Append(@, run.pc),
                     !.invoked = Append(@, next)]

\* Fail with the exception logged and a partial outcome returned
FailSwallowed(run) ==
    [run EXCEPT !.pc = "done", !.failed_at = run.pc,
                !.outcome = Some([vehicle_id |-> run.vehicle_id,
                                  timestamp |-> run.timestamp])]

\* except Exception as e: logger.error(...); raise
Fail(run) == [run EXCEPT !.pc = "failed", !.failed_at = run.pc]

\* lines 40-48: record the call, then call analyze_data
StartRun(r) ==
    /\ runs[r].pc = "idle"
    /\ \E vehicle_id \in VehicleInputs, sensor_data \in SensorInputs,
          oracle \in PredictOutcomes :
          /\ log_agent_activity("master_agent", "process_telematics_data",
                                Some("vehicle_id"), oracle)
          /\ LET next == AfterRecord(last'.anomaly)
                 started == [runs[r] EXCEPT
                                !.vehicle_id = vehicle_id,
                                !.timestamp = Get(sensor_data, "timestamp", None),
                                !.anomaly = last'.anomaly,
                                !.logged = <<Len(recorded')>>]
             IN  runs' = [runs EXCEPT ![r] =
                            IF last'.raised
                            THEN Fail([started EXCEPT !.pc = "log_agent_activity"])
                            ELSE [started EXCEPT
                                     !.pc = next,
                                     !.invoked = IF next \in Collaborators
                                                 THEN <<next>> ELSE <<>>]]
    /\ UNCHANGED <<model, sklearn_available, now, calls, ticks, summary, process,
                   elsewhere>>

MonitorUnchanged ==
    UNCHANGED <<activity_logs, agent_activity_counts, model, sklearn_available,
                now, recorded, last, calls, ticks, summary, process,
                   elsewhere>>

\* line 48 returns; line 52 calls predict_failures
AnalyzeReturns(r) ==
    /\ runs[r].pc = "analyze_data"
    /\ \E analysis_result \in AnalysisInputs :
          runs' = [runs EXCEPT ![r] =
                     [@ EXCEPT !.pc = "predict_failures",
                               !.analysis = Some(analysis_result),
                               !.returned = Append(@, "analyze_data"),
                               !.invoked = Append(@, "predict_failures")]]
    /\ MonitorUnchanged

\* DiagnoseReturns with the analysis result kept in a field of the agent
\* shared by the runs: predict_failures gets the result of whichever run was
\* analysed, not that of its own run
DiagnoseReturnsSharedAnalysis(r) ==
    /\ runs[r].pc = "predict_failures"
    /\ LET other == CHOOSE o \in Runs : o # r
           source == IF runs[other].analysis # None THEN other ELSE r
           diagnosis_result == PredictFailures(runs[source].analysis[1])
       IN  runs' = [runs EXCEPT ![r] =
                      Proceed(@, diagnosis_result, AfterDiagnosis(diagnosis_result))]
    /\ MonitorUnchanged

\* line 52 returns; lines 55-58
DiagnoseReturns(r) ==
    /\ runs[r].pc = "predict_failures"
    /\ LET diagnosis_result == PredictFailures(runs[r].analysis[1])
       IN  runs' = [runs EXCEPT ![r] =
                      Proceed(@, diagnosis_result, AfterDiagnosis(diagnosis_result))]
    /\ MonitorUnchanged

\* line 58 returns; lines 61-66
NotifyReturns(r) ==
    /\ runs[r].pc = "send_alert"
    /\ LET diagnosis_result == runs[r].diagnosis[1]
       IN  runs' = [runs EXCEPT ![r] =
                      Proceed(@, diagnosis_result, AfterNotify(diagnosis_result))]
    /\ MonitorUnchanged

\* diagnosis_result["scheduling"] = schedule_result
AttachScheduling(diagnosis_result, schedule_result) ==
    [diagnosis_result EXCEPT !.scheduling = Some(schedule_result)]

\* line 63 returns; lines 67-74
\* auto_schedule has stored the appointment if it found a slot
ScheduleReturns(r) ==
    /\ runs[r].pc = "auto_schedule"
    /\ LET booked == AutoScheduleOn(scheduler.appointments, runs[r].vehicle_id,
                                    Get(runs[r].diagnosis[1],
                                        "recommended_service", None), now)
           diagnosis_result ==
               AttachScheduling(runs[r].diagnosis[1], booked.result.status)
       IN  /\ runs' = [runs EXCEPT ![r] = Proceed(@, diagnosis_result, "return")]
           /\ scheduler' = [scheduler EXCEPT !.appointments = booked.appointments]
    /\ UNCHANGED <<activity_logs, agent_activity_counts, model, sklearn_available,
                   now, recorded, last, calls, ticks, summary, process,
                   endpoint, diagnosed, ws_manager, telematics_simulator>>

\* CollaboratorRaises with the event of the failed run taken out of the
\* ledger again
CollaboratorRaisesRollsBack(r) ==
    /\ runs[r].pc \in Collaborators
    /\ runs' = [runs EXCEPT ![r] = Fail(@)]
    /\ LET i == runs[r].logged[1]
       IN  activity_logs' =
              [j \in 1..(Len(activity_logs) - 1) |->
                  IF j < i THEN activity_logs[j] ELSE activity_logs[j + 1]]
    /\ UNCHANGED <<agent_activity_counts, model, sklearn_available, now,
                   recorded, last, calls, ticks, summary, process,
                   elsewhere>>

\* the awaited collaborator raises; lines 76-78 re-raise
CollaboratorRaises(r) ==
    /\ runs[r].pc \in Collaborators
    /\ runs' = [runs EXCEPT ![r] = Fail(@)]
    /\ MonitorUnchanged

NextPipeline ==
    \E r \in Runs :
        \/ StartRun(r)
        \/ AnalyzeReturns(r)
        \/ DiagnoseReturns(r)
        \/ NotifyReturns(r)
        \/ ScheduleReturns(r)
        \/ CollaboratorRaises(r)

\* The collaborators are coroutines without a suspension point: every await
\* of the pipeline ends in a DatabaseService method whose body makes its
\* driver calls synchronously, so the run that is inside a collaborator
\* call holds the event loop, and the loop is free only between runs
LoopFree == \A r \in Runs : runs[r].pc \notin Collaborators

\* the event loop takes the next request of POST /telematics
StartRunOnLoop(r) == LoopFree /\ StartRun(r)

NextEventLoop ==
    \E r \in Runs :
        \/ StartRunOnLoop(r)
        \/ AnalyzeReturns(r)
        \/ DiagnoseReturns(r)
        \/ NotifyReturns(r)
        \/ ScheduleReturns(r)
        \/ CollaboratorRaises(r)

----------------------------------------------------------------------------
(* The monitor on its own: Spec *)

\* the monitor, the orchestrator and the endpoint after construction
InitCore(prefills, files) ==
    /\ \E p \in prefills :
          /\ activity_logs = Burst(p)
          /\ recorded = Burst(p)
          /\ agent_activity_counts = BurstCounts(p)
    /\ \E file \in files, sklearn \in BOOLEAN :
          /\ sklearn_available = sklearn
          /\ process = Startup(NewProcess(file), Owners, sklearn)
          \* the monitor of the model is the one MasterAgent built
          /\ model = IF process.raised THEN NoModel
                     ELSE process.monitors[1].model
    \* without a monitor nothing was recorded
    /\ process.raised => recorded = <<>>
    /\ now = 0
    /\ last = NoCall
    /\ calls = 0
    /\ ticks = 0
    /\ runs = [r \in Runs |-> IdleRun]
    /\ summary = NoSummary
    /\ endpoint = NoEndpoint
    /\ diagnosed = NoDiagnosis

InitMonitor(prefills, files) ==
    /\ InitCore(prefills, files)
    /\ scheduler = NoScheduler
    /\ ws_manager = NoWsManager
    /\ telematics_simulator = NoSimulator

Init == InitMonitor(Prefills, ModelFiles)

Log ==
    /\ calls < MaxCalls
    /\ \E agent_name \in AgentInputs, action \in ActionInputs,
          metadata \in MetadataInputs, oracle \in PredictOutcomes :
          log_agent_activity(agent_name, action, metadata, oracle)
    /\ calls' = calls + 1
    /\ UNCHANGED <<model, sklearn_available, now, ticks, runs, summary, process,
                   elsewhere>>

Tick ==
    /\ ticks < MaxTicks
    /\ \E d \in TickSteps : now' = now + d
    /\ ticks' = ticks + 1
    /\ UNCHANGED <<activity_logs, agent_activity_counts, model,
                   sklearn_available, recorded, last, calls, runs, summary,
                   process, elsewhere>>

Next == Log \/ Tick

Spec == Init /\ [][Next]_vars

----------------------------------------------------------------------------
(* Entities with a limit of 100 or more under high call volume: SpecVolume *)

\* the entities of normal_patterns whose max_calls_per_minute is not below
\* the 100 entries the rate-limit check reads
HighLimitAgents ==
    {a \in DOMAIN normal_patterns :
        normal_patterns[a].max_calls_per_minute >= RecentWindow}

\* monitors that recorded 150 to 250 calls of one such entity within a second
PrefillsVolume ==
    { << Block("master_agent", "process_telematics_data", 150) >>,
      << Block("data_analysis_agent", "analyze_data", 250) >>,
      << Block("diagnosis_agent", "predict_failures", 150) >>,
      << Block("master_agent", "process_telematics_data", 99) >> }

InitVolume == InitMonitor(PrefillsVolume, {"absent"})

LogVolume ==
    /\ calls < MaxCalls
    /\ \E agent_name \in HighLimitAgents,
          action \in {"process_telematics_data", "analyze_data"},
          oracle \in PredictOutcomes :
          log_agent_activity(agent_name, action, None, oracle)
    /\ calls' = calls + 1
    /\ UNCHANGED <<model, sklearn_available, now, ticks, runs, summary, process,
                   elsewhere>>

NextVolume == LogVolume \/ Tick

SpecVolume == InitVolume /\ [][NextVolume]_vars

----------------------------------------------------------------------------
(* The operations of MasterAgent and the endpoint: SpecOrchestrator *)

\* the action each operation of MasterAgent records under "master_agent",
\* with the keys of the metadata it passes
MasterOperations ==
    [process_telematics_data |-> "vehicle_id",
     handle_customer_query |-> "session_id",
     schedule_maintenance |-> "vehicle_id,service_type",
     submit_feedback |-> "vehicle_id,service_id",
     get_vehicle_status |-> "vehicle_id"]

InitOrchestrator == InitMonitor(PrefillsPipeline, ModelFiles)

\* the appointments table after the collaborator calls of an operation:
\* schedule_maintenance books through schedule_appointment, and
\* process_telematics_data through auto_schedule when the diagnosis asks
\* for it; the other operations store no appointment
AppointmentsAfter(appointments, action, preferred_date, analysis_result, t) ==
    IF action = "schedule_maintenance"
    THEN ScheduleOn(appointments, "V9", "battery_replacement",
                    preferred_date, t).appointments
    ELSE IF action = "process_telematics_data"
    THEN LET diagnosis_result == PredictFailures(analysis_result)
         IN  IF AfterDiagnosis(diagnosis_result) = "send_alert"
                /\ AfterNotify(diagnosis_result) = "auto_schedule"
             THEN AutoScheduleOn(appointments, "V9",
                                 Get(diagnosis_result, "recommended_service",
                                     None), t).appointments
             ELSE appointments
    ELSE appointments

\* what analyze_data returns to an operation: all scores at 100, or a
\* battery score under its limit
HealthyAnalysis ==
    [health_scores |-> [battery |-> 100, engine |-> 100, brakes |-> 100,
                        oil |-> 100, overall |-> 100], anomalies |-> <<>>]

OperationAnalysisInputs ==
    {HealthyAnalysis,
     [health_scores |-> [battery |-> 29, oil |-> 39], anomalies |-> <<>>]}

\* an operation of MasterAgent: it records the call on the monitor, then
\* awaits its collaborators, which do not touch the monitor. A collaborator
\* may raise (get_db_session raises when PostgreSQL is not connected, before
\* any row is read or stored): the operation re-raises after the event is
\* recorded and the appointments table is as it was
MasterOperation ==
    /\ calls < MaxCalls
    /\ \E action \in DOMAIN MasterOperations, oracle \in PredictOutcomes,
          preferred_date \in {None},
          analysis_result \in OperationAnalysisInputs,
          collaborator_raises \in BOOLEAN :
          /\ action # "process_telematics_data" =>
                analysis_result = HealthyAnalysis
          /\ log_agent_activity("master_agent", action,
                                Some(MasterOperations[action]), oracle)
          /\ scheduler' = [scheduler EXCEPT !.appointments =
                IF last'.raised \/ collaborator_raises THEN @
                ELSE AppointmentsAfter(@, action, preferred_date,
                                       analysis_result, now)]
    /\ calls' = calls + 1
    /\ UNCHANGED <<model, sklearn_available, now, ticks, runs, summary, process,
                   endpoint, diagnosed, ws_manager, telematics_simulator>>

ServeActivity ==
    /\ endpoint.taken < MaxSummaries
    /\ \E agent_name \in {None, Some("master_agent")} :
          get_ueba_activity(agent_name)
    /\ UNCHANGED <<activity_logs, agent_activity_counts, model,
                   sklearn_available, now, recorded, last, calls, ticks, runs,
                   summary, process, diagnosed, scheduler, ws_manager,
                   telematics_simulator>>

NextOrchestrator == MasterOperation \/ ServeActivity

SpecOrchestrator == InitOrchestrator /\ [][NextOrchestrator]_vars

----------------------------------------------------------------------------
(* DiagnosisAgent.predict_failures on its own: SpecDiagnosis *)

InitDiagnosis == InitMonitor({<<>>}, {"absent"})

NextDiagnosis == Predict

SpecDiagnosis == InitDiagnosis /\ [][NextDiagnosis]_vars

----------------------------------------------------------------------------
(* Start of the process with any model file: SpecStartup *)

ModelFilesAtStartup == ModelFiles \cup {"locked"}

InitStartup == InitMonitor(Prefills, ModelFilesAtStartup)

\* a call on the monitor needs the monitor
LogOnMonitor == ~process.raised /\ Log

NextStartup == LogOnMonitor \/ Tick

SpecStartup == InitStartup /\ [][NextStartup]_vars

----------------------------------------------------------------------------
(* The ledger at its capacity: SpecCapacity *)

InitCapacity == InitMonitor(PrefillsNearCapacity, {"absent"})

LogAtCapacity ==
    /\ calls < MaxOverflowCalls
    /\ \E agent_name \in {"feedback_agent", "guest_agent"},
          oracle \in PredictOutcomes :
          log_agent_activity(agent_name, "process_feedback", None, oracle)
    /\ calls' = calls + 1
    /\ UNCHANGED <<model, sklearn_available, now, ticks, runs, summary, process,
                   elsewhere>>

NextCapacity == LogAtCapacity

SpecCapacity == InitCapacity /\ [][NextCapacity]_vars

----------------------------------------------------------------------------
(* The monitor and its summary: SpecSummary *)

PrefillsSummary ==
    { <<>>,
      << Block("feedback_agent", "process_feedback", 3),
         Block("guest_agent", "process_telematics_data", 9) >> }

InitSummary == InitMonitor(PrefillsSummary, {"absent"})

Summarize ==
    /\ summary.taken < MaxSummaries
    /\ \E agent_name \in SummaryInputs : get_activity_summary(agent_name)
    /\ UNCHANGED <<agent_activity_counts, model, sklearn_available, now,
                   recorded, last, calls, ticks, runs, process,
                   elsewhere>>

NextSummary == Log \/ Summarize

SpecSummary == InitSummary /\ [][NextSummary]_vars

----------------------------------------------------------------------------
(* The orchestrator with its monitor: SpecPipeline *)

\* tomorrow full and one slot left the day after: the first booking gets
\* the slot, the second finds none
OneSlotLeft == Table(BookedUpTo(1, 16) \o BookedUpTo(2, 15))

\* the appointments table is empty, has one slot left, or is full for
\* tomorrow and the day after
TablesOfPipeline ==
    {<<>>, OneSlotLeft, Table(BookedUpTo(1, 16) \o BookedUpTo(2, 16))}

InitPipeline ==
    /\ InitCore(PrefillsPipeline, ModelFiles)
    /\ \E table \in TablesOfPipeline :
          scheduler = [NoScheduler EXCEPT !.appointments = table]
    /\ ws_manager = NoWsManager
    /\ telematics_simulator = NoSimulator

SpecPipeline == InitPipeline /\ [][NextPipeline]_vars

\* the monitor of a MasterAgent one event short of the ledger's capacity
PrefillsPipelineNearCapacity ==
    { << Block("master_agent", "process_telematics_data", LedgerCapacity - 1) >> }

\* scikit-learn is not installed: the monitor runs its policy checks alone
InitPipelineCapacity ==
    /\ InitMonitor(PrefillsPipelineNearCapacity, {"absent"})
    /\ ~sklearn_available

SpecPipelineCapacity == InitPipelineCapacity /\ [][NextPipeline]_vars

\* the collaborator call the run awaits completes: it returns or it raises
Responds(r) ==
    \/ AnalyzeReturns(r)
    \/ DiagnoseReturns(r)
    \/ NotifyReturns(r)
    \/ ScheduleReturns(r)
    \/ CollaboratorRaises(r)

\* the monitor of a MasterAgent that has handled nine requests and found
\* a model file, with or without scikit-learn, and an empty appointments
\* table
InitPipelineLive ==
    InitMonitor({<< Block("master_agent", "process_telematics_data", 9) >>},
                {"loadable"})

\* SpecPipelineLive: no awaited collaborator call hangs for ever
SpecPipelineLive ==
    /\ InitPipelineLive
    /\ [][NextPipeline]_vars
    /\ \A r \in Runs : WF_vars(Responds(r))

\* SpecEventLoop: the runs on the one event loop of the server; the request
\* of run 2 is served when the loop is free and the collaborator calls of
\* run 2 complete, while a collaborator call of run 1 may hang
SpecEventLoop ==
    /\ InitPipeline
    /\ [][NextEventLoop]_vars
    /\ WF_vars(StartRunOnLoop(2))
    /\ WF_vars(Responds(2))

----------------------------------------------------------------------------
(* Vocabulary of the properties *)

HasType(anomalies, type) ==
    \E i \in 1..Len(anomalies) : anomalies[i].type = type

PolicyTypes == {"rate_limit_exceeded", "unauthorized_action"}

PolicyFindings(anomalies) ==
    LET IsPolicy(a) == a.type \in PolicyTypes
    IN  SelectSeq(anomalies, IsPolicy)

KnownAgent(agent_name) == agent_name \in DOMAIN normal_patterns

\* the events of the agent recorded less than 60 elapsed seconds before t
CallsWithinMinute(events, agent_name, t) ==
    LET Within(log) ==
            /\ log.agent = agent_name
            /\ t - log.timestamp >= 0
            /\ t - log.timestamp < RateWindowSeconds
    IN  SelectSeq(events, Within)

\* the events of the agent with a timestamp in [t - 60s, t]
EventsInClosedWindow(events, agent_name, t) ==
    LET Within(log) ==
            /\ log.agent = agent_name
            /\ log.timestamp >= t - RateWindowSeconds
            /\ log.timestamp <= t
    IN  SelectSeq(events, Within)

----------------------------------------------------------------------------
(* Ledger capacity *)

\* C1: the ledger never holds more than LedgerCapacity events, and what it
\* holds is the newest part of what was recorded: eviction removes the
\* oldest events first.
C1_LedgerBounded ==
    /\ Len(activity_logs) <= LedgerCapacity
    /\ Len(activity_logs) <= Len(recorded)
    /\ activity_logs = LastN(recorded, Len(activity_logs))

C1_Witness ==
    /\ last.called
    /\ Len(recorded) > LedgerCapacity
    /\ Len(activity_logs) = LedgerCapacity

\* C2: once more than LedgerCapacity events have been recorded, the ledger
\* is exactly the LedgerCapacity most recently recorded events, in arrival
\* order.
C2_RetainsMostRecent ==
    Len(recorded) > LedgerCapacity =>
        activity_logs = SubSeq(recorded, Len(recorded) - LedgerCapacity + 1,
                               Len(recorded))

C2_Witness ==
    /\ last.called
    /\ last.agent = "feedback_agent"
    /\ Len(recorded) = LedgerCapacity + 2
    /\ recorded[1].agent = "feedback_agent"
    /\ activity_logs[1].agent = "feedback_agent"
    /\ activity_logs[2].agent = "guest_agent"

----------------------------------------------------------------------------
(* Rate limit *)

\* C3: the recent_activities the rate-limit check of the latest call selected
\* are exactly the ledger events of that entity with a timestamp in
\* [T - 60s, T], T the time of the check.
C3_WindowQueryExact ==
    (last.called /\ KnownAgent(last.agent)) =>
        RecentActivities(activity_logs, last.agent, last.time)
            = EventsInClosedWindow(activity_logs, last.agent, last.time)

\* C4: for an entity with max_calls_per_minute = k, the check of its
\* (k+1)-th call within 60 seconds yields rate_limit_exceeded and the check
\* of its k-th call within 60 seconds does not.
C4_RateLimitAtKPlusOne ==
    (last.called /\ KnownAgent(last.agent)) =>
        LET k == normal_patterns[last.agent].max_calls_per_minute
            n == Len(CallsWithinMinute(recorded, last.agent, last.time))
        IN  /\ n = k + 1 => HasType(last.anomalies, "rate_limit_exceeded")
            /\ n = k => ~HasType(last.anomalies, "rate_limit_exceeded")

----------------------------------------------------------------------------
(* Allow-list and unknown entities *)

\* C5: for an entity with a profile, the check of a call yields
\* unauthorized_action exactly when the action is not in allowed_actions.
C5_AllowList ==
    (last.called /\ KnownAgent(last.agent)) =>
        (HasType(last.anomalies, "unauthorized_action")
            <=> last.action \notin normal_patterns[last.agent].allowed_actions)

\* an unauthorized action recorded by an entity that is over its rate limit
C5_Witness ==
    /\ last.called
    /\ last.agent = "feedback_agent"
    /\ last.action = "process_telematics_data"
    /\ HasType(last.anomalies, "rate_limit_exceeded")
    /\ HasType(last.anomalies, "unauthorized_action")

\* C6: the check of a call of an entity without a profile yields neither
\* rate_limit_exceeded nor unauthorized_action.
C6_NoProfileNoPolicyFinding ==
    (last.called /\ ~KnownAgent(last.agent)) =>
        /\ ~HasType(last.anomalies, "rate_limit_exceeded")
        /\ ~HasType(last.anomalies, "unauthorized_action")

\* an entity without a profile after more than a hundred calls in a minute
C6_Witness ==
    /\ last.called
    /\ last.agent = "guest_agent"
    /\ Len(CallsWithinMinute(activity_logs, "guest_agent", last.time)) > RecentWindow

----------------------------------------------------------------------------
(* Outlier model *)

\* C7: while the entity of the latest call has fewer than 5 events in the
\* ledger, the check of that call yields no model finding.
C7_NoOutlierBelowMinHistory ==
    (last.called /\ Len(AgentEvents(activity_logs, last.agent)) < MinHistory) =>
        /\ ~HasType(last.anomalies, "ml_anomaly")
        /\ ~HasType(last.anomalies, "statistical_outlier")

\* the model is consulted for the ledger, but the entity has too few events
C7_Witness ==
    /\ last.called
    /\ model = FittedModel
    /\ sklearn_available
    /\ Len(activity_logs) >= MinLogsForModel
    /\ Len(AgentEvents(activity_logs, last.agent)) < MinHistory
    /\ last.ml = "no_features"

\* C8: with no model (model is None) a call does not raise, yields no model
\* finding, and yields the rate-limit and allow-list findings that the same
\* check yields with a model, whatever that model predicts.
C8_PolicyOnlyWithoutModel ==
    (last.called /\ model = NoModel) =>
        /\ ~last.raised
        /\ ~HasType(last.anomalies, "ml_anomaly")
        /\ last.anomalies = PolicyFindings(last.anomalies)
        /\ \A oracle \in PredictOutcomes :
              PolicyFindings(
                  CheckAnomaly(activity_logs, last.agent, last.action, last.time,
                               FittedModel, TRUE, oracle).anomalies)
              = last.anomalies

\* no model, a ledger a model would have scored, and a policy finding
C8_Witness ==
    /\ last.called
    /\ model = NoModel
    /\ Len(activity_logs) >= MinLogsForModel
    /\ Len(AgentEvents(activity_logs, last.agent)) >= MinHistory
    /\ HasType(last.anomalies, "rate_limit_exceeded")

----------------------------------------------------------------------------
(* What a call reports *)

----------------------------------------------------------------------------
(* Branching of the pipeline *)

Invoked(run, collaborator) ==
    \E i \in 1..Len(run.invoked) : run.invoked[i] = collaborator

Returned(run, collaborator) ==
    \E i \in 1..Len(run.returned) : run.returned[i] = collaborator

\* C9: in every run, send_alert (Notify) and auto_schedule (Schedule) are
\* not invoked unless the diagnosis is critical; with a critical diagnosis
\* send_alert is invoked; auto_schedule is not invoked unless auto_schedule
\* is set too, and then it is invoked, once send_alert has returned and not
\* before.
C9_BranchingOnDiagnosis ==
    \A r \in Runs :
        LET run == runs[r]
        IN  IF run.diagnosis = None
            THEN ~Invoked(run, "send_alert") /\ ~Invoked(run, "auto_schedule")
            ELSE LET d == run.diagnosis[1]
                 IN  /\ ~d.critical_alert =>
                            /\ ~Invoked(run, "send_alert")
                            /\ ~Invoked(run, "auto_schedule")
                     /\ (d.critical_alert /\ ~d.auto_schedule) =>
                            /\ Invoked(run, "send_alert")
                            /\ ~Invoked(run, "auto_schedule")
                     /\ (d.critical_alert /\ d.auto_schedule) =>
                            /\ Invoked(run, "send_alert")
                            /\ Invoked(run, "auto_schedule")
                                   <=> Returned(run, "send_alert")
                            /\ Returned(run, "send_alert") =>
                                   run.invoked = <<"analyze_data", "predict_failures",
                                                   "send_alert", "auto_schedule">>

\* one finished run took both branches, the other only the notification
C9_Witness ==
    /\ runs[1].pc = "done"
    /\ runs[1].diagnosis[1].critical_alert
    /\ runs[1].diagnosis[1].auto_schedule
    /\ runs[1].invoked = <<"analyze_data", "predict_failures",
                           "send_alert", "auto_schedule">>
    /\ runs[2].pc = "done"
    /\ runs[2].diagnosis[1].critical_alert
    /\ ~runs[2].diagnosis[1].auto_schedule
    /\ runs[2].invoked = <<"analyze_data", "predict_failures", "send_alert">>

----------------------------------------------------------------------------
(* Independence of the two policy checks *)

TypeAndSeverity(anomalies) ==
    [i \in 1..Len(anomalies) |-> <<anomalies[i].type, anomalies[i].severity>>]

\* a finding of the type and the severity is in the list
HasFinding(anomalies, type, severity) ==
    \E i \in 1..Len(anomalies) :
        anomalies[i].type = type /\ anomalies[i].severity = severity

\* C11: the rate-limit check and the allow-list check are both evaluated for
\* every event and their findings accumulated: an event of an entity that
\* has made more calls within 60 seconds than its limit, with an allowed
\* action, yields a report with exactly one finding, rate_limit_exceeded
\* (high); such an event with an action that is not allowed yields a report
\* containing both rate_limit_exceeded (high) and unauthorized_action
\* (critical).
C11_ChecksAccumulate ==
    (last.called /\ KnownAgent(last.agent)) =>
        LET pattern == normal_patterns[last.agent]
            over == Len(CallsWithinMinute(recorded, last.agent, last.time))
                        > pattern.max_calls_per_minute
            unauthorized == last.action \notin pattern.allowed_actions
        IN  /\ (over /\ ~unauthorized) =>
                   /\ last.anomaly # None
                   /\ TypeAndSeverity(last.anomaly[1].anomalies)
                         = << <<"rate_limit_exceeded", "high">> >>
            /\ (over /\ unauthorized) =>
                   /\ last.anomaly # None
                   /\ HasFinding(last.anomaly[1].anomalies,
                                 "rate_limit_exceeded", "high")
                   /\ HasFinding(last.anomaly[1].anomalies,
                                 "unauthorized_action", "critical")

----------------------------------------------------------------------------
(* Failures of the collaborators *)

OutcomeKeys == {"vehicle_id", "analysis", "diagnosis", "timestamp"}

\* the outcome carries what send_alert returned
HasNotificationResult(outcome) ==
    \/ "notification" \in DOMAIN outcome
    \/ "notification" \in DOMAIN outcome.diagnosis

\* C12 as stated: when the diagnosis is critical with auto_schedule set and
\* auto_schedule fails, process_telematics_data does not raise: it returns an
\* outcome whose diagnosis carries a "scheduling unavailable" marker and
\* which holds the notification result.
C12_ScheduleFailureDegrades ==
    \A r \in Runs :
        runs[r].failed_at = "auto_schedule" =>
            /\ runs[r].pc = "done"
            /\ runs[r].outcome # None
            /\ runs[r].outcome[1].diagnosis.scheduling = Some("unavailable")
            /\ HasNotificationResult(runs[r].outcome[1])

\* C13: a run in which analyze_data, predict_failures or send_alert raises
\* ends as a failure without an outcome, and the failing call is the last
\* collaborator call of the run: no later stage is invoked.
C13_FailurePropagates ==
    \A r \in Runs :
        LET run == runs[r]
        IN  /\ run.failed_at = "analyze_data" =>
                  /\ run.pc = "failed" /\ run.outcome = None
                  /\ run.invoked = <<"analyze_data">>
            /\ run.failed_at = "predict_failures" =>
                  /\ run.pc = "failed" /\ run.outcome = None
                  /\ run.invoked = <<"analyze_data", "predict_failures">>
            /\ run.failed_at = "send_alert" =>
                  /\ run.pc = "failed" /\ run.outcome = None
                  /\ run.invoked = <<"analyze_data", "predict_failures",
                                     "send_alert">>
            /\ run.failed_at \in Collaborators => ~Returned(run, run.failed_at)

\* one run failed at the notification, the other at the analysis, both after
\* the other run had moved on
C13_Witness ==
    /\ runs[1].pc = "failed"
    /\ runs[1].failed_at = "send_alert"
    /\ runs[1].diagnosis # None
    /\ runs[1].diagnosis[1].auto_schedule
    /\ runs[2].pc = "failed"
    /\ runs[2].failed_at = "analyze_data"

----------------------------------------------------------------------------
(* The monitor inside the pipeline *)

Started(run) == run.pc # "idle"

\* C15: a failure of the model while an event is recorded stays inside the
\* monitor and counts as no finding: log_agent_activity does not raise, the
\* event is in the ledger and counted, the check has no model finding, and
\* no run fails at the recording step.
C15_MonitorFailureContained ==
    /\ ~last.raised
    /\ \A r \in Runs : runs[r].failed_at # "log_agent_activity"
    /\ (last.called /\ last.ml = "error") =>
          /\ ~HasType(last.anomalies, "ml_anomaly")
          /\ last.anomalies = PolicyFindings(last.anomalies)
          /\ activity_logs[Len(activity_logs)].agent = last.agent
          /\ activity_logs[Len(activity_logs)].action = last.action
          /\ ActivityKey(last.agent, last.action) \in DOMAIN agent_activity_counts
          /\ agent_activity_counts[ActivityKey(last.agent, last.action)]
                = Len(AgentEvents(recorded, last.agent))

\* predict raised while the event of run 1 was recorded, and run 1 finished
C15_Witness ==
    /\ last.called
    /\ last.ml = "error"
    /\ runs[2].pc = "idle"
    /\ runs[1].pc = "done"
    /\ runs[1].outcome # None

\* what the collaborators answered to the run so far
Responses(run) ==
    <<run.analysis, run.returned, run.failed_at,
      IF run.diagnosis = None THEN None ELSE run.diagnosis[1].scheduling>>

\* C16: two runs with the same input to which the collaborators gave the
\* same answers have made the same collaborator calls and have the same
\* outcome, whether or not the monitor reported an anomaly for either.
C16_DetectionDoesNotEnforce ==
    \A r1, r2 \in Runs :
        ( /\ Started(runs[r1]) /\ Started(runs[r2])
          /\ runs[r1].vehicle_id = runs[r2].vehicle_id
          /\ runs[r1].timestamp = runs[r2].timestamp
          /\ Responses(runs[r1]) = Responses(runs[r2]) ) =>
            /\ runs[r1].invoked = runs[r2].invoked
            /\ runs[r1].outcome = runs[r2].outcome
            /\ runs[r1].pc = runs[r2].pc

\* the monitor reported the caller in one run and not in the other; both
\* runs went through all four stages
C16_Witness ==
    /\ runs[1].anomaly = None
    /\ runs[2].anomaly # None
    /\ HasType(runs[2].anomaly[1].anomalies, "ml_anomaly")
    /\ runs[1].pc = "done"
    /\ runs[2].pc = "done"
    /\ Responses(runs[1]) = Responses(runs[2])
    /\ runs[2].invoked = <<"analyze_data", "predict_failures",
                           "send_alert", "auto_schedule">>

----------------------------------------------------------------------------
(* What the outcome holds *)

\* C20: the outcome of a finished run holds the notification
\* result exactly when send_alert ran and the scheduling result, attached to
\* the diagnosis, exactly when auto_schedule ran.
C20_StageResultsPresent ==
    \A r \in Runs :
        (runs[r].pc = "done" /\ runs[r].outcome # None) =>
            /\ HasNotificationResult(runs[r].outcome[1])
                  <=> Invoked(runs[r], "send_alert")
            /\ runs[r].outcome[1].diagnosis.scheduling # None
                  <=> Invoked(runs[r], "auto_schedule")

----------------------------------------------------------------------------
(* Termination of a run *)

\* C14: when no awaited collaborator call hangs, every started run in which
\* no collaborator raises ends with process_telematics_data returning an
\* outcome, whichever of send_alert and auto_schedule it called.
C14_RunReachesDone ==
    \A r \in Runs :
        Started(runs[r]) ~>
            \/ runs[r].pc = "done" /\ runs[r].outcome # None
            \/ runs[r].failed_at \in Collaborators

\* finished runs: one that called neither optional collaborator and one
\* that called both
C14_Witness ==
    /\ runs[1].pc = "done"
    /\ runs[1].outcome # None
    /\ runs[1].invoked = <<"analyze_data", "predict_failures">>
    /\ runs[2].pc = "done"
    /\ runs[2].outcome # None
    /\ runs[2].invoked = <<"analyze_data", "predict_failures",
                           "send_alert", "auto_schedule">>

----------------------------------------------------------------------------
(* The summary *)

\* C17: get_activity_summary is read-only: a call leaves the ledger, the
\* per-action counters and the model as they were, and the check of any
\* log_agent_activity call that follows is the one it would have been
\* without the summary.
C17_SummaryReadOnly ==
    [][ summary'.taken # summary.taken =>
          /\ activity_logs' = activity_logs
          /\ agent_activity_counts' = agent_activity_counts
          /\ model' = model
          /\ \A agent_name \in AgentInputs, action \in ActionInputs,
                oracle \in PredictOutcomes :
                CheckAnomaly(AppendActivity(activity_logs',
                                            Activity(agent_name, action, None, now')),
                             agent_name, action, now', model',
                             sklearn_available', oracle)
                = CheckAnomaly(AppendActivity(activity_logs,
                                              Activity(agent_name, action, None, now)),
                               agent_name, action, now, model,
                               sklearn_available, oracle) ]_vars

\* a summary of a ledger of more than ten events, of which it reported the
\* last ten, and a log call after it
C17_Witness ==
    /\ summary.taken > 0
    /\ summary.value[1].total_activities > 10
    /\ Len(summary.value[1].recent_activities) = 10
    /\ last.called
    /\ Len(recorded) > summary.at
    /\ Len(activity_logs) = Len(recorded)

----------------------------------------------------------------------------
(* Interleaved runs on a full ledger *)

\* C18: with the calls of several runs interleaved, every event a run has
\* appended is in the ledger exactly once until it is evicted as one of the
\* oldest: after n runs have recorded their event on a ledger that held
\* LedgerCapacity - 1 events, LedgerCapacity - 1 + n events were appended
\* and the ledger is exactly the newest of them, up to its capacity, in
\* arrival order.
C18_AppendAndEvictAtomic ==
    LET started == Cardinality({r \in Runs : Started(runs[r])})
        appended == LedgerCapacity - 1 + started
    IN  /\ Len(recorded) = appended
        /\ Len(activity_logs) = Min(appended, LedgerCapacity)
        /\ activity_logs = LastN(recorded, Len(activity_logs))

\* run 2 recorded its event, which evicted the oldest one, while run 1 was
\* waiting for send_alert
C18_Witness ==
    /\ runs[1].pc = "send_alert"
    /\ runs[2].pc = "analyze_data"
    /\ last.called
    /\ Len(recorded) = LedgerCapacity + 1
    /\ Len(activity_logs) = LedgerCapacity
    /\ activity_logs[LedgerCapacity].metadata = "vehicle_id"
    /\ activity_logs[LedgerCapacity - 1].metadata = "vehicle_id"

----------------------------------------------------------------------------
(* Initialization of the model *)

\* C19 as stated: in one process the model is initialized (loaded from the
\* file or trained and written to it) at most once, whichever of the
\* monitors of MasterAgent, routes and main asks for it.
C19_ModelInitializedOnce ==
    /\ process.loads + process.trainings <= 1
    /\ process.writes <= 1

----------------------------------------------------------------------------
(* The stages of a run and the events it records *)

Stages == <<"analyze_data", "predict_failures", "send_alert", "auto_schedule">>

IsPrefix(s, t) == Len(s) <= Len(t) /\ s = SubSeq(t, 1, Len(s))

\* C21 as stated: a run appends one activity event for each stage it enters,
\* before the collaborator call of that stage: it has appended as many events
\* as it has made collaborator calls.
C21_OneEventPerStage ==
    \A r \in Runs : Len(runs[r].logged) = Len(runs[r].invoked)

\* C22: in one run the collaborators are called in the order analyze_data,
\* predict_failures, send_alert, auto_schedule, each one only when the call
\* before it has returned (at most the last call made is outstanding), and
\* the diagnosis of the run is predict_failures of the analysis of that run.
C22_StagesSequential ==
    \A r \in Runs :
        LET run == runs[r]
        IN  /\ IsPrefix(run.invoked, Stages)
            /\ IsPrefix(run.returned, run.invoked)
            /\ Len(run.invoked) - Len(run.returned) <= 1
            /\ run.pc \in Collaborators =>
                  /\ run.invoked # <<>>
                  /\ run.invoked[Len(run.invoked)] = run.pc
                  /\ Len(run.returned) = Len(run.invoked) - 1
            /\ Invoked(run, "predict_failures") =>
                  /\ Returned(run, "analyze_data")
                  /\ run.analysis # None
            /\ run.diagnosis # None =>
                  [run.diagnosis[1] EXCEPT !.scheduling = None]
                      = PredictFailures(run.analysis[1])

\* two runs in flight with different analyses: one diagnosed as critical and
\* waiting for auto_schedule, the other diagnosed as not critical
C22_Witness ==
    /\ runs[1].pc = "auto_schedule"
    /\ runs[1].returned = <<"analyze_data", "predict_failures", "send_alert">>
    /\ runs[1].diagnosis[1].critical_alert
    /\ runs[2].pc = "done"
    /\ runs[2].invoked = <<"analyze_data", "predict_failures">>
    /\ ~runs[2].diagnosis[1].critical_alert
    /\ runs[1].analysis # runs[2].analysis

\* the events evicted so far: those beyond the capacity of the ledger
Evicted == IF Len(recorded) > LedgerCapacity
           THEN Len(recorded) - LedgerCapacity ELSE 0

\* C23: the event a run has recorded stays in the ledger whatever happens to
\* the run afterwards (a collaborator raises, the run is left waiting): it
\* is in the ledger, unchanged, at its place in the arrival order, until it
\* is evicted as one of the oldest.
C23_RecordedEventsRetained ==
    \A r \in Runs :
        \A k \in DOMAIN runs[r].logged :
            LET i == runs[r].logged[k]
            IN  /\ i <= Len(recorded)
                /\ recorded[i].agent = "master_agent"
                /\ recorded[i].action = "process_telematics_data"
                /\ i > Evicted =>
                      /\ i - Evicted <= Len(activity_logs)
                      /\ activity_logs[i - Evicted] = recorded[i]

\* run 1 recorded its event and failed in predict_failures; run 2 started
\* after it and finished
C23_Witness ==
    /\ runs[1].pc = "failed"
    /\ runs[1].failed_at = "predict_failures"
    /\ runs[1].logged # <<>>
    /\ runs[2].pc = "done"
    /\ runs[2].logged # <<>>
    /\ runs[1].logged[1] < runs[2].logged[1]
    /\ activity_logs[runs[1].logged[1]].metadata = "vehicle_id"

----------------------------------------------------------------------------
(* When the model is consulted *)

\* model.predict was called for the event
ScorerApplied(ml) == ml \in {"outlier", "inlier", "error"}

\* C24 as stated: with a model available the scorer is applied to every
\* recorded event whose entity has at least 5 events in the ledger, and
\* there is no verdict for lack of data only when it has fewer than 5.
C24_ScoredFromFiveEvents ==
    (last.called /\ model = FittedModel /\ sklearn_available) =>
        LET history == Len(AgentEvents(activity_logs, last.agent))
        IN  /\ history >= MinHistory => ScorerApplied(last.ml)
            /\ ~ScorerApplied(last.ml) => history < MinHistory

\* C24 as amended: with a model available the scorer is applied to a
\* recorded event exactly when the ledger holds at least 10 events and the
\* entity of the event, with or without a profile, has at least 5 events
\* among the newest 100 of the ledger; with fewer than 10 events in the
\* ledger the model is not consulted, and with fewer than 5 events of the
\* entity among the newest 100 there is no verdict.
C24_ScoredWhenWarm ==
    (last.called /\ model = FittedModel /\ sklearn_available) =>
        LET warm == Len(activity_logs) >= MinLogsForModel
            history == Len(AgentEvents(LastN(activity_logs, RecentWindow),
                                       last.agent))
        IN  /\ ScorerApplied(last.ml) <=> (warm /\ history >= MinHistory)
            /\ last.ml = "no_features" <=> (warm /\ history < MinHistory)
            /\ last.ml = "skipped" <=> ~warm

\* an event of an entity without a profile, scored as an outlier
C24_Witness ==
    /\ last.called
    /\ last.agent = "guest_agent"
    /\ ~KnownAgent(last.agent)
    /\ last.ml = "outlier"
    /\ HasType(last.anomalies, "ml_anomaly")

----------------------------------------------------------------------------
(* Kinds and severities of findings *)

\* C25: every finding has a kind in {rate_limit_exceeded,
\* unauthorized_action, statistical_outlier} with the severity of its kind:
\* rate_limit_exceeded is high, unauthorized_action is critical, and a
\* model-predicted outlier is statistical_outlier at medium.
C25_KindsAndSeverities ==
    last.called =>
        /\ \A i \in 1..Len(last.anomalies) :
              TypeAndSeverity(last.anomalies)[i] \in
                  { <<"rate_limit_exceeded", "high">>,
                    <<"unauthorized_action", "critical">>,
                    <<"statistical_outlier", "medium">> }
        /\ last.ml = "outlier" =>
              \E i \in 1..Len(last.anomalies) :
                  TypeAndSeverity(last.anomalies)[i]
                      = <<"statistical_outlier", "medium">>

----------------------------------------------------------------------------
(* Invocations of the anomaly handler *)

\* C26: _handle_anomaly is invoked exactly once for each recorded event
\* that has at least one finding, with that event and its report, and is
\* not invoked for an event with no finding.
C26_HandlerOncePerFlaggedEvent ==
    last.called =>
        /\ last.anomalies # <<>> =>
              /\ Len(last.handled) = 1
              /\ last.handled[1].activity = recorded[Len(recorded)]
              /\ last.handled[1].activity.agent = last.agent
              /\ last.handled[1].activity.action = last.action
              /\ last.handled[1].anomaly = last.anomaly[1]
              /\ last.handled[1].anomaly.anomalies = last.anomalies
        /\ last.anomalies = <<>> => Len(last.handled) = 0

\* an event with two findings, handed to the handler
C26_Witness ==
    /\ last.called
    /\ Len(last.anomalies) = 2
    /\ Len(last.handled) = 1
    /\ last.handled[1].action_taken = "logged"

----------------------------------------------------------------------------
(* A model file that cannot be loaded *)

\* C27: when the model file exists and cannot be loaded (corrupt or
\* unreadable), constructing the monitor does not fail: every monitor of
\* the process is built, with a freshly trained model if scikit-learn is
\* available and with no model otherwise, and calls on the monitor do not
\* raise.
C27_UnloadableFileTolerated ==
    process.found \in {"corrupt", "locked"} =>
        /\ ~process.raised
        /\ Len(process.monitors) = Len(Owners)
        /\ \A i \in 1..Len(process.monitors) :
              process.monitors[i].model = CreateModel(sklearn_available)
        /\ process.trainings = (IF sklearn_available THEN 1 ELSE 0)
        /\ last.called => ~last.raised

----------------------------------------------------------------------------
(* A collaborator call that hangs *)

\* C28: a collaborator call that never returns stalls only the run that
\* made it: the other run, whose own collaborator calls complete, is still
\* recorded by the monitor and still finishes.
C28_HungCallStallsOnlyItsRun ==
    <>( /\ runs[2].logged # <<>>
        /\ runs[2].pc \in {"done", "failed"} )

----------------------------------------------------------------------------
(* The ledger is append-only *)

\* C29: each log_agent_activity call appends exactly one event, as the
\* newest entry of the ledger, and leaves every event that was in the
\* ledger as it was and in the same order; the only event that may leave
\* is the oldest one, when the ledger was full.
C29_AppendOnly ==
    [][ calls' # calls =>
          LET n == Len(activity_logs)
              m == Len(activity_logs')
          IN  /\ Len(recorded') = Len(recorded) + 1
              /\ m >= 1
              /\ activity_logs'[m] = recorded'[Len(recorded')]
              /\ activity_logs'[m].agent = last'.agent
              /\ activity_logs'[m].action = last'.action
              /\ activity_logs'[m].timestamp = last'.time
              /\ IF n < LedgerCapacity
                 THEN /\ m = n + 1
                      /\ SubSeq(activity_logs', 1, n) = activity_logs
                 ELSE /\ m = n
                      /\ SubSeq(activity_logs', 1, n - 1) = Tail(activity_logs)
      ]_vars

\* three calls on a ledger that held 9998 events: two appends that evicted
\* nothing and one that evicted the oldest event
C29_Witness ==
    /\ calls = 3
    /\ Len(recorded) = LedgerCapacity + 1
    /\ Len(activity_logs) = LedgerCapacity
    /\ activity_logs[LedgerCapacity] = recorded[Len(recorded)]
    /\ activity_logs[1] = recorded[2]
    /\ activity_logs[LedgerCapacity].agent # activity_logs[LedgerCapacity - 1].agent

----------------------------------------------------------------------------
(* What the summary reports *)

RECURSIVE SumOver(_, _)
SumOver(f, keys) ==
    IF keys = {} THEN 0
    ELSE LET k == CHOOSE x \in keys : TRUE
         IN  f[k] + SumOver(f, keys \ {k})

\* C30: get_activity_summary(entity) reports as total the number of ledger
\* events of that entity, of all entities when none is given (None or the
\* empty name); the per-entity counts and the per-(entity, action) counts
\* are the numbers of matching events of each entity and of each pair and
\* each sum to the total; the recent events are the last 10 matching
\* events, oldest first. For an empty ledger or an entity without events
\* the total is 0 and no count and no recent event is reported.
C30_SummaryCounts ==
    summary.taken > 0 =>
        LET ledger == SubSeq(recorded, 1, summary.at)
            matching == IF Truthy(summary.agent)
                        THEN AgentEvents(ledger, summary.agent[1])
                        ELSE ledger
            value == summary.value[1]
            by_agent == Get(value, "by_agent", <<>>)
            by_action == Get(value, "by_action", <<>>)
            recent == Get(value, "recent_activities", <<>>)
            Pair(agent, action) ==
                LET Is(log) == log.agent = agent /\ log.action = action
                IN  SelectSeq(matching, Is)
        IN  /\ value.total_activities = Len(matching)
            /\ SumOver(by_agent, DOMAIN by_agent) = value.total_activities
            /\ SumOver(by_action, DOMAIN by_action) = value.total_activities
            /\ \A a \in DOMAIN by_agent :
                  by_agent[a] = Len(AgentEvents(matching, a))
            /\ DOMAIN by_action =
                  {ActivityKey(matching[i].agent, matching[i].action) :
                      i \in DOMAIN matching}
            /\ \A i \in DOMAIN matching :
                  by_action[ActivityKey(matching[i].agent, matching[i].action)]
                     = Len(Pair(matching[i].agent, matching[i].action))
            /\ Len(recent) = Min(10, Len(matching))
            /\ \A i \in 1..Len(recent) :
                  LET log == matching[Len(matching) - Len(recent) + i]
                  IN  /\ recent[i].agent = log.agent
                      /\ recent[i].action = log.action
                      /\ recent[i].timestamp = IsoFormat(log.timestamp)

\* a summary over all entities of a ledger of more than ten events of two
\* entities, whose oldest event is not among the ten reported
C30_Witness ==
    /\ summary.taken > 0
    /\ ~Truthy(summary.agent)
    /\ summary.at > 10
    /\ Cardinality(DOMAIN summary.value[1].by_agent) >= 2
    /\ Cardinality(DOMAIN summary.value[1].by_action) >= 2
    /\ summary.value[1].recent_activities[1].agent # recorded[1].agent

----------------------------------------------------------------------------
(* The rate-limit check reads the last 100 entries *)

\* C31: the rate-limit check counts events among the last 100 ledger
\* entries only, so the count is at most 100, and no rate_limit_exceeded
\* finding is produced for an entity whose max_calls_per_minute is 100 or
\* more (master_agent, data_analysis_agent, diagnosis_agent), however many
\* calls it made within the minute.
C31_NoRateFindingFromLimit100 ==
    /\ HighLimitAgents = {"master_agent", "data_analysis_agent", "diagnosis_agent"}
    /\ last.called =>
          /\ Len(RecentActivities(activity_logs, last.agent, last.time))
                <= RecentWindow
          /\ last.agent \in HighLimitAgents =>
                ~HasType(last.anomalies, "rate_limit_exceeded")

\* a call of master_agent, the 152nd within one second, without a
\* rate-limit finding
C31_Witness ==
    /\ last.called
    /\ last.agent = "master_agent"
    /\ last.time = 0
    /\ Len(CallsWithinMinute(activity_logs, "master_agent", last.time)) > 151
    /\ Len(RecentActivities(activity_logs, last.agent, last.time)) = RecentWindow
    /\ ~HasType(last.anomalies, "rate_limit_exceeded")

----------------------------------------------------------------------------
(* What GET /ueba/activity shows of the orchestrator *)

\* C32: the summary served by GET /ueba/activity counts every event the
\* orchestrator recorded that is still in its ledger: it is the summary of
\* the ledger of MasterAgent's monitor at the time of the request.
C32_EndpointShowsOrchestratorLedger ==
    endpoint.taken > 0 =>
        endpoint.value[1]
            = ActivitySummary(SubSeq(recorded, 1, endpoint.at), endpoint.agent)

----------------------------------------------------------------------------
(* The orchestrator's own actions are allowed *)

\* C33: every action the orchestrator records about itself
\* (process_telematics_data, handle_customer_query, schedule_maintenance,
\* submit_feedback, get_vehicle_status, under master_agent) is in the
\* allowed_actions of master_agent, and no operation of MasterAgent yields
\* an unauthorized_action finding.
C33_OrchestratorActionsAllowed ==
    /\ DOMAIN MasterOperations
          \subseteq normal_patterns["master_agent"].allowed_actions
    /\ last.called =>
          /\ last.agent = "master_agent"
          /\ last.action \in DOMAIN MasterOperations
          /\ ~HasType(last.anomalies, "unauthorized_action")

\* get_vehicle_status recorded after nine other operations and flagged by
\* the model alone
C33_Witness ==
    /\ last.called
    /\ last.action = "get_vehicle_status"
    /\ recorded[Len(recorded)].metadata = "vehicle_id"
    /\ TypeAndSeverity(last.anomalies) = << <<"ml_anomaly", "medium">> >>
    /\ UnauthorizedFindings(last.agent, last.action) = <<>>

----------------------------------------------------------------------------
(* The verdict of predict_failures *)

RuleOrder == <<"battery", "engine", "brakes", "oil", "overall", "anomalies">>

RuleService ==
    <<"battery_replacement", "engine_inspection", "brake_replacement",
      "oil_change", "general_inspection", "diagnostic_check">>

RuleLevel ==
    <<"critical", "critical", "critical", "warning", "warning", "warning">>

RuleMatches(analysis_result, i) ==
    IF RuleOrder[i] = "anomalies"
    THEN Len(Get(analysis_result, "anomalies", <<>>)) > 0
    ELSE Get(Get(analysis_result, "health_scores", <<>>), RuleOrder[i], 100)
            < ScoreLimits[RuleOrder[i]]

\* C34: in every result of predict_failures auto_schedule is true only if
\* critical_alert is, auto_schedule is true exactly when alert_level is
\* 'critical', and without critical_alert the recommended_service is None
\* and the alert_level 'info'; the result is that of the first rule that
\* matches in the order battery, engine, brakes, oil, overall, anomalies.
C34_VerdictConsistent ==
    diagnosed.result # None =>
        LET d == diagnosed.result[1]
            matching == {i \in DOMAIN RuleOrder :
                            RuleMatches(diagnosed.analysis_result[1], i)}
        IN  /\ d.auto_schedule => d.critical_alert
            /\ d.auto_schedule <=> d.alert_level = "critical"
            /\ ~d.critical_alert =>
                  /\ d.recommended_service = None
                  /\ d.alert_level = "info"
            /\ d.critical_alert <=> matching # {}
            /\ matching # {} =>
                  LET first == CHOOSE i \in matching :
                                  \A j \in matching : i <= j
                  IN  /\ d.recommended_service = Some(RuleService[first])
                      /\ d.alert_level = RuleLevel[first]

\* brakes and oil both below their limits: the brakes rule decides
C34_Witness ==
    /\ diagnosed.result # None
    /\ RuleMatches(diagnosed.analysis_result[1], 3)
    /\ RuleMatches(diagnosed.analysis_result[1], 4)
    /\ RuleMatches(diagnosed.analysis_result[1], 6)
    /\ diagnosed.result[1].recommended_service = Some("brake_replacement")
    /\ diagnosed.result[1].auto_schedule

----------------------------------------------------------------------------
(* C35, C36: SchedulingAgent *)

\* the scheduler reads nothing of the monitor: scikit-learn installed
InitScheduling ==
    /\ InitCore({<<>>}, {"absent"})
    /\ sklearn_available
    /\ \E table \in TablesAtStart :
          scheduler = [NoScheduler EXCEPT !.appointments = table]
    /\ ws_manager = NoWsManager
    /\ telematics_simulator = NoSimulator

SpecScheduling == InitScheduling /\ [][NextScheduling]_vars

\* the scheduled rows of a table on one day at one hour
ScheduledAt(appointments, day, hour) ==
    {i \in DOMAIN appointments :
        /\ appointments[i].status = "scheduled"
        /\ appointments[i].date[1] = day
        /\ appointments[i].time = hour}

\* C35: no two appointments with status "scheduled" have the same calendar
\* date and the same time slot, whatever calls were made and however they
\* were ordered.
C35_NoDoubleBooking ==
    \A i, j \in DOMAIN scheduler.appointments :
        LET a == scheduler.appointments[i]
            b == scheduler.appointments[j]
        IN  (/\ a.status = "scheduled" /\ b.status = "scheduled"
             /\ a.date[1] = b.date[1] /\ a.time = b.time) => i = j

\* two calls have returned a booking each, one of them in a slot that a
\* cancelled appointment held
C35_Witness ==
    /\ \A c \in SchedulingCalls :
          /\ scheduler.calls[c].pc = "done"
          /\ scheduler.calls[c].result[1].status = "scheduled"
    /\ \E i, j \in DOMAIN scheduler.appointments :
          /\ i # j
          /\ scheduler.appointments[i].status = "cancelled"
          /\ scheduler.appointments[j].status = "scheduled"
          /\ scheduler.appointments[i].date[1] = scheduler.appointments[j].date[1]
          /\ scheduler.appointments[i].time = scheduler.appointments[j].time

\* the hours of 9..16 that no scheduled row of the table has on the day
FreeHours(appointments, day) ==
    {h \in 9..16 : ScheduledAt(appointments, day, h) = {}}

\* the day a call asked for: the day of its preferred date, or tomorrow
\* when none was given or it is not a date
AskedDay(call) ==
    LET text == call.preferred_date
    IN  IF text # None /\ Len(text[1]) = 2 THEN text[1][1]
        ELSE (now \div SecondsPerDay) + 1

\* what a returned call must have done to the table it found
BookedAsPromised(call) ==
    LET day == AskedDay(call)
        first == FreeHours(call.before, day)
        second == FreeHours(call.before, day + 1)
        row == call.after[Len(call.after)]
        BooksLowest(d, free) ==
            /\ call.result[1].status = "scheduled"
            /\ Len(call.after) = Len(call.before) + 1
            /\ SubSeq(call.after, 1, Len(call.before)) = call.before
            /\ row.status = "scheduled"
            /\ row.date[1] = d
            /\ row.time \in free
            /\ \A h \in free : row.time <= h
            /\ call.result[1].appointment[1].time = row.time
    IN  IF first # {} THEN BooksLowest(day, first)
        ELSE IF second # {} THEN BooksLowest(day + 1, second)
        ELSE /\ call.result[1].status = "error"
             /\ call.after = call.before

\* C36: a returned schedule_appointment call has booked the lowest free slot
\* of 9..16 on the preferred day, else the lowest free slot of the next
\* day, else it returned status "error" and stored nothing; it books on no
\* third day and at no hour outside 9..16.
C36_LowestFreeSlotOfTwoDays ==
    \A c \in SchedulingCalls :
        scheduler.calls[c].pc = "done" => BookedAsPromised(scheduler.calls[c])

\* one call booked a slot above 9 on the day after the preferred one, and
\* the other found both days full
C36_Witness ==
    \E c, d \in SchedulingCalls :
        /\ scheduler.calls[c].pc = "done"
        /\ scheduler.calls[d].pc = "done"
        /\ scheduler.calls[c].result[1].status = "scheduled"
        /\ scheduler.calls[c].result[1].appointment[1].time > 9
        /\ scheduler.calls[c].result[1].appointment[1].date[1] =
              AskedDay(scheduler.calls[c]) + 1
        /\ scheduler.calls[d].result[1].status = "error"

----------------------------------------------------------------------------
(* C37, C38: the services of main.py *)

InitServices ==
    /\ InitMonitor({<<>>}, {"absent"})
    /\ sklearn_available

SpecServices == InitServices /\ [][NextServices]_vars

\* the websockets listed under some client id
Listed ==
    {ws \in WebSockets :
        \E c \in DOMAIN ws_manager.active_connections :
            \E i \in DOMAIN ws_manager.active_connections[c] :
                ws_manager.active_connections[c][i] = ws}

\* C37: once a websocket handler has ended and called disconnect(client_id),
\* its connection is not listed in active_connections, and no client id is
\* mapped to an empty list.
C37_EndedHandlersUnlisted ==
    /\ \A ws \in WebSockets : ws_manager.websockets[ws].pc = "ended" => ws \notin Listed
    /\ \A c \in DOMAIN ws_manager.active_connections :
          ws_manager.active_connections[c] # <<>>

\* C38: at most one simulation loop thread is updating the vehicle data at
\* any time.
C38_OneLoopUpdates ==
    Cardinality({t \in SimThreads : telematics_simulator.loops[t] = "updating"}) <= 1

====
